---- MODULE Spec2Model ----
(***************************************************************************)
(* axeevents: phone verification, reminder job and RSVP rules.             *)
(*                                                                         *)
(* Three specifications share one set of variables:                        *)
(*   SpecAuth      the verification-code state machine and the sessions    *)
(*                 (events/auth.py, events/models.py User, the login and   *)
(*                 profile views of events/views.py);                      *)
(*   SpecReminder  send_event_reminders interleaved with the requests that *)
(*                 save an Event row (events/tasks.py, edit_event,         *)
(*                 send_text_blast);                                       *)
(*   SpecRsvp      rsvp_event and the creator's forced RSVP.               *)
(* Each specification leaves the variables of the others at their initial  *)
(* value.                                                                  *)
(***************************************************************************)
EXTENDS Integers, Sequences, FiniteSets, Bags, TLC

VARIABLES
    now,        \* timezone.now(): seconds in SpecAuth, quarter hours in SpecReminder
    users,      \* User rows, by primary key
    nextId,     \* next unused User primary key
    sessions,   \* request.session of every browser session
    issued,     \* history: per phone number, the last code generated for it
    codesSent,  \* history: how many codes were generated so far
    last,       \* history: the operation of the last step and its result
    event,      \* the Event row (SpecReminder, SpecRsvp)
    rsvps,      \* RSVP rows of the event: user -> status
    questions,  \* whether the event's EventQuestion is required
    answers,    \* RSVPAnswer rows: whether the user's RSVP holds an answer
    rows,       \* the RSVP rows of one (user, event) pair, in SpecUpsert
    textBlasts, \* the number of TextBlast rows of the event
    invitations, \* EventInvitation rows of the event: a bag of phone numbers
    eventQuestions, \* EventQuestion rows of the event, in SpecAnswers
    rsvpAnswers, \* RSVPAnswer rows of one guest's RSVP, in SpecAnswers
    otherEvents, \* the short_code of the other Event rows: a bag of codes
    organizers, \* event.organizers: the co-organizers of the event
    files,      \* the staged temporary image files
    imageJobs,  \* process_uploaded_image tasks, by staged file
    sms,        \* send_bulk_sms and send_single_sms tasks
    jobs,       \* send_event_reminders invocations in progress
    beat,       \* whether the beat schedule has fired at the current instant
    reqs,       \* web requests in progress that hold a loaded Event or RSVP
    sent,       \* history: reminders accepted by the SMS gateway
    hist        \* history: what has happened so far in the behaviour

vars ==
    <<now, users, nextId, sessions, issued, codesSent, last,
      event, rsvps, questions, answers, rows, organizers, files, imageJobs, sms,
      textBlasts, invitations, eventQuestions, rsvpAnswers, otherEvents,
      jobs, beat, reqs, sent, hist>>

authVars == <<users, nextId, sessions, issued, codesSent>>
moreVars == <<textBlasts, invitations, eventQuestions, rsvpAnswers, otherEvents>>
extraVars == <<answers, rows, organizers, files, imageJobs, sms, moreVars>>
eventVars == <<event, rsvps, questions, extraVars, jobs, beat, reqs, sent, hist>>
jobVars == <<jobs, beat, sent>>

None == "none"
\* a DateTimeField holding NULL
NoTime == 0 - 1

(***************************************************************************)
(* Verification service                                                    *)
(***************************************************************************)

\* timedelta(minutes=5) and timedelta(minutes=1) of User
ExpiryMinutes == 5
CooldownMinutes == 1
ExpirySeconds == ExpiryMinutes * 60
CooldownSeconds == CooldownMinutes * 60

\* the instants at which SpecAuth samples the clock: for a code generated at 0
\* the end of its cooldown, the end of its validity and an instant past both,
\* which is also the end of the validity of a code generated at the second
\* instant
Instants == {0, CooldownSeconds, ExpirySeconds, ExpirySeconds + CooldownSeconds}
MaxNow == ExpirySeconds + CooldownSeconds

Phones == {"+15550001", "+15550002"}
Formats == {"e164", "national"}
BadInput == <<"bad", "bad">>
\* what a user can type into a phone number field
RawPhones == (Phones \X Formats) \cup {BadInput}
\* the inputs tried on the login form, whose view only normalizes them
LoginInputs == (Phones \X {"national"}) \cup {BadInput}

\* str(secrets.randbelow(1000000)).zfill(6): two of the million codes
Codes == {"000001", "000002"}
\* the outcomes of secrets.randbelow tried for the next code: the codes are
\* interchangeable, so the first one generated is taken to be "000001"
RandomCodes(n) == IF n = 0 THEN {"000001"} ELSE Codes
\* what a user can type into the code field (after .strip())
SubmittedCodes == Codes \cup {""}

\* at most MaxCodes codes are generated in a behaviour
MaxCodes == 3
\* the primary keys User rows can get
UserIds == {1, 2, 3}
Sessions == {"s1", "s2"}

\* phonenumbers.parse(raw, "US") followed by f"+{country_code}{national_number}"
ParsePhone(raw) == IF raw = BadInput THEN None ELSE raw[1]

\* str(user.phone_number): the E.164 rendering of the stored number
StrPhone(phone) == <<phone, "e164">>

NormalizePhoneNumber(raw) == ParsePhone(raw)

NewUser(phone) ==
    [phone_number |-> phone,
     verification_code |-> "",
     verification_code_sent_at |-> NoTime,
     is_verified |-> FALSE,
     ever_sent_at |-> NoTime]   \* history: when a code was last generated for this row

UserByPhone(us, phone) == {i \in DOMAIN us : us[i].phone_number = phone}

\* mutant: the deadline itself counts as expired
IsVerificationCodeExpiredAtDeadline(u, t) ==
    IF u.verification_code_sent_at = NoTime
    THEN TRUE
    ELSE t >= u.verification_code_sent_at + ExpirySeconds

IsVerificationCodeExpired(u, t) ==
    IF u.verification_code_sent_at = NoTime
    THEN TRUE
    ELSE t > u.verification_code_sent_at + ExpirySeconds

\* mutant: the cooldown ends at the deadline instead of after it
CanResendCodeAtDeadline(u, t) ==
    IF u.verification_code_sent_at = NoTime
    THEN TRUE
    ELSE t >= u.verification_code_sent_at + CooldownSeconds

CanResendCode(u, t) ==
    IF u.verification_code_sent_at = NoTime
    THEN TRUE
    ELSE t > u.verification_code_sent_at + CooldownSeconds

\* a variant that stores the new code without its timestamp
GenerateVerificationCodeUntimed(u, code, t) ==
    [u EXCEPT !.verification_code = code]

GenerateVerificationCode(u, code, t) ==
    [u EXCEPT !.verification_code = code,
              !.verification_code_sent_at = t,
              !.ever_sent_at = t]

\* AuthService.send_verification_code up to the gateway call: get_or_create,
\* then generate_verification_code; nid is the key a created row gets
SendVerificationCode(us, nid, phone, code, t) ==
    LET ids == UserByPhone(us, phone)
        i == IF ids = {} THEN nid ELSE CHOOSE j \in ids : TRUE
        row == IF ids = {} THEN NewUser(phone) ELSE us[i]
    IN [j \in DOMAIN us \cup {i} |->
          IF j = i THEN GenerateVerificationCode(row, code, t) ELSE us[j]]

CanCreateFor(us, nid, phone) ==
    /\ UserByPhone(us, phone) # {} \/ nid \in UserIds
    /\ codesSent < MaxCodes

NextIdAfter(us, nid, phone) == IF UserByPhone(us, phone) = {} THEN nid + 1 ELSE nid

\* mutant: a successful verification leaves the code and its timestamp stored
VerifiedRowKeepsCode(u) == [u EXCEPT !.is_verified = TRUE]

VerifiedRow(u) ==
    [u EXCEPT !.is_verified = TRUE,
              !.verification_code = "",
              !.verification_code_sent_at = NoTime]

\* AuthService.verify_code: the result triple and the rows after the call
\* a variant that spends the stored code on an invalid attempt
VerifyCodeBurnsCode(us, phone, code, t) ==
    LET ids == UserByPhone(us, phone) IN
    IF ids = {}
    THEN [ok |-> FALSE, uid |-> 0, err |-> "not_found", users |-> us]
    ELSE LET i == CHOOSE j \in ids : TRUE IN
         IF IsVerificationCodeExpired(us[i], t)
         THEN [ok |-> FALSE, uid |-> i, err |-> "expired", users |-> us]
         ELSE IF us[i].verification_code = code
         THEN [ok |-> TRUE, uid |-> i, err |-> None,
               users |-> [us EXCEPT ![i] = VerifiedRow(us[i])]]
         ELSE [ok |-> FALSE, uid |-> i, err |-> "invalid",
               users |-> [us EXCEPT ![i].verification_code = ""]]

VerifyCode(us, phone, code, t) ==
    LET ids == UserByPhone(us, phone) IN
    IF ids = {}
    THEN [ok |-> FALSE, uid |-> 0, err |-> "not_found", users |-> us]
    ELSE LET i == CHOOSE j \in ids : TRUE IN
         IF IsVerificationCodeExpired(us[i], t)
         THEN [ok |-> FALSE, uid |-> i, err |-> "expired", users |-> us]
         ELSE IF us[i].verification_code = code
         THEN [ok |-> TRUE, uid |-> i, err |-> None,
               users |-> [us EXCEPT ![i] = VerifiedRow(us[i])]]
         ELSE [ok |-> FALSE, uid |-> i, err |-> "invalid", users |-> us]

EmptySession ==
    [user_phone |-> None,
     verification_phone |-> None,
     new_phone_verification |-> None,
     current_user_id |-> 0]

NoIssue == [code |-> "", at |-> 0, st |-> "none"]

\* history: `last` holds the last step's verify_code call (phone, submitted code,
\* result) or code generation (phone, code, "issued"), and is NoOp after any other step
NoOp == [op |-> "other", phone |-> None, code |-> "", err |-> None]

Op(name, s, phone, code, ok, err, iss) ==
    IF name \in {"verify_code", "verify_phone_change"}
    THEN [op |-> name, phone |-> phone, code |-> code,
          err |-> IF ok THEN "ok" ELSE err]
    ELSE IF iss
    THEN [op |-> name, phone |-> phone, code |-> code, err |-> "issued", ok |-> ok]
    ELSE NoOp

\* history kept when a code is generated for a phone number
IssueFor(phone, code, t) ==
    [issued EXCEPT ![phone] = [code |-> code, at |-> t, st |-> "fresh"]]

\* history kept when verify_code(phone, code) succeeds
ConsumeFor(phone) == [issued EXCEPT ![phone].st = "used", ![phone].at = 0]

\* the cooldown gate of phone_login
LoginGate(us, phone, t) ==
    LET ids == UserByPhone(us, phone) IN
    ids # {} /\ ~CanResendCode(us[CHOOSE j \in ids : TRUE], t)

\* the cooldown gate of resend_code
ResendGate(u, t) == ~CanResendCode(u, t)

\* mutant: the login view authenticates the session whatever verify_code returned
LoginSessionUnchecked(sess, phone, uid, ok) ==
    [sess EXCEPT !.user_phone = phone, !.verification_phone = None]

\* the session after the login view's verify_code call
LoginSession(sess, phone, uid, ok) ==
    IF ok
    THEN [sess EXCEPT !.user_phone = phone, !.verification_phone = None]
    ELSE sess

\* the session after verify_phone_change's verify_code call
PhoneChangeSession(sess, phone, ok) ==
    IF ok
    THEN [sess EXCEPT !.user_phone = phone,
                      !.new_phone_verification = None,
                      !.current_user_id = 0]
    ELSE sess

\* views.phone_login, POST
PhoneLogin(s, raw) ==
    LET sess0 == sessions[s]
        loggedIn == sess0.user_phone # None
        stillThere == UserByPhone(users, sess0.user_phone) # {}
        sess1 == IF loggedIn THEN EmptySession ELSE sess0  \* session.flush()
        formatted == NormalizePhoneNumber(raw)
    IN
    /\ UNCHANGED <<now, eventVars>>
    /\ IF loggedIn /\ stillThere
       THEN /\ UNCHANGED authVars
            /\ last' = Op("phone_login", s, None, "", FALSE, "redirect", FALSE)
       ELSE IF formatted = None \/ LoginGate(users, formatted, now)
       THEN /\ sessions' = [sessions EXCEPT ![s] = sess1]
            /\ UNCHANGED <<users, nextId, issued, codesSent>>
            /\ last' = Op("phone_login", s, formatted, "", FALSE, "refused", FALSE)
       ELSE \E code \in RandomCodes(codesSent), delivered \in BOOLEAN :
            /\ CanCreateFor(users, nextId, formatted)
            /\ users' = SendVerificationCode(users, nextId, formatted, code, now)
            /\ nextId' = NextIdAfter(users, nextId, formatted)
            /\ issued' = IssueFor(formatted, code, now)
            /\ codesSent' = codesSent + 1
            /\ sessions' = [sessions EXCEPT ![s] =
                   IF delivered
                   THEN [sess1 EXCEPT !.verification_phone = formatted]
                   ELSE sess1]
            /\ last' = Op("phone_login", s, formatted, code, delivered, None, TRUE)

\* views.verify_code, POST
VerifyCodeView(s, code) ==
    LET phone == sessions[s].verification_phone
        r == VerifyCode(users, phone, code, now)
    IN
    /\ phone # None
    /\ UNCHANGED <<now, nextId, codesSent, eventVars>>
    /\ users' = r.users
    /\ sessions' = [sessions EXCEPT ![s] = LoginSession(sessions[s], phone, r.uid, r.ok)]
    /\ issued' = IF r.ok THEN ConsumeFor(phone) ELSE issued
    /\ last' = Op("verify_code", s, phone, code, r.ok, r.err, FALSE)

\* views.resend_code
ResendCode(s) ==
    LET phone == sessions[s].verification_phone
        ids == UserByPhone(users, phone)
    IN
    /\ phone # None
    /\ UNCHANGED <<now, sessions, nextId, eventVars>>
    /\ IF ids = {} \/ ResendGate(users[CHOOSE j \in ids : TRUE], now)
       THEN /\ UNCHANGED <<users, issued, codesSent>>
            /\ last' = Op("resend_code", s, phone, "", FALSE, "refused", FALSE)
       ELSE \E code \in RandomCodes(codesSent), delivered \in BOOLEAN :
            /\ CanCreateFor(users, nextId, phone)
            /\ users' = SendVerificationCode(users, nextId, phone, code, now)
            /\ issued' = IssueFor(phone, code, now)
            /\ codesSent' = codesSent + 1
            /\ last' = Op("resend_code", s, phone, code, delivered, None, TRUE)

\* views.logout_view
Logout(s) ==
    /\ sessions[s] # EmptySession
    /\ sessions' = [sessions EXCEPT ![s] = EmptySession]
    /\ last' = Op("logout", s, None, "", TRUE, None, FALSE)
    /\ UNCHANGED <<now, users, nextId, issued, codesSent, eventVars>>

\* views.edit_profile, POST with a non-empty name
EditProfile(s, raw) ==
    LET user_phone == sessions[s].user_phone
        ids == UserByPhone(users, user_phone)
        uid == CHOOSE j \in ids : TRUE
        formatted == ParsePhone(raw)
        taken == \E j \in UserByPhone(users, formatted) : j # uid
    IN
    /\ user_phone # None
    /\ ids # {}
    /\ UNCHANGED <<now, eventVars>>
    /\ IF raw = StrPhone(user_phone) \/ formatted = None \/ taken
       THEN /\ UNCHANGED authVars
            /\ last' = Op("edit_profile", s, formatted, "", FALSE, "refused", FALSE)
       ELSE \E code \in RandomCodes(codesSent), delivered \in BOOLEAN :
            /\ CanCreateFor(users, nextId, formatted)
            /\ users' = SendVerificationCode(users, nextId, formatted, code, now)
            /\ nextId' = NextIdAfter(users, nextId, formatted)
            /\ issued' = IssueFor(formatted, code, now)
            /\ codesSent' = codesSent + 1
            /\ sessions' = [sessions EXCEPT ![s] =
                   IF delivered
                   THEN [@ EXCEPT !.new_phone_verification = formatted,
                                  !.current_user_id = uid]
                   ELSE @]
            /\ last' = Op("edit_profile", s, formatted, code, delivered, None, TRUE)

\* the rows after verify_phone_change's success branch: `user` was loaded before
\* the verify_code call and is saved whole after it
PhoneChangeRows(before, after, uid, vid, new_phone) ==
    LET moved == [before[uid] EXCEPT !.phone_number = new_phone,
                                     !.is_verified = TRUE,
                                     !.verification_code = ""]
    IN [j \in (DOMAIN after \ {vid}) \cup {uid} |-> IF j = uid THEN moved ELSE after[j]]

\* views.verify_phone_change, POST with a non-empty code
VerifyPhoneChange(s, code) ==
    LET new_phone == sessions[s].new_phone_verification
        uid == sessions[s].current_user_id
        r == VerifyCode(users, new_phone, code, now)
    IN
    /\ new_phone # None
    /\ uid \in DOMAIN users          \* get_object_or_404(User, id=user_id)
    /\ code # ""
    /\ UNCHANGED <<now, nextId, codesSent, eventVars>>
    /\ users' = IF r.ok
                THEN PhoneChangeRows(users, r.users, uid, r.uid, new_phone)
                ELSE r.users
    /\ sessions' = [sessions EXCEPT ![s] = PhoneChangeSession(sessions[s], new_phone, r.ok)]
    /\ issued' = IF r.ok THEN ConsumeFor(new_phone) ELSE issued
    /\ last' = Op("verify_phone_change", s, new_phone, code, r.ok, r.err, FALSE)

TickAuth ==
    /\ \E i \in Instants : i > now /\ now' = i /\ \A k \in Instants : k > now => k >= i
    /\ last' = Op("tick", None, None, "", FALSE, None, FALSE)
    /\ UNCHANGED <<authVars, eventVars>>

NoEvent == [exists |-> FALSE]

InitAuth ==
    /\ now = 0
    /\ users = <<>>
    /\ nextId = 1
    /\ sessions = [s \in Sessions |-> EmptySession]
    /\ issued = [p \in Phones |-> NoIssue]
    /\ codesSent = 0
    /\ last = NoOp
    /\ event = NoEvent
    /\ rsvps = <<>>
    /\ questions = FALSE
    /\ answers = <<>>
    /\ rows = <<>>
    /\ textBlasts = 0
    /\ invitations = EmptyBag
    /\ eventQuestions = <<>>
    /\ rsvpAnswers = {}
    /\ otherEvents = EmptyBag
    /\ organizers = {}
    /\ files = {}
    /\ imageJobs = <<>>
    /\ sms = <<>>
    /\ jobs = <<>>
    /\ beat = FALSE
    /\ reqs = <<>>
    /\ sent = <<>>
    /\ hist = <<>>

NextAuth ==
    \/ \E s \in Sessions, raw \in LoginInputs : PhoneLogin(s, raw)
    \/ \E s \in Sessions, code \in SubmittedCodes : VerifyCodeView(s, code)
    \/ \E s \in Sessions : ResendCode(s)
    \/ \E s \in Sessions : Logout(s)
    \/ \E s \in Sessions, raw \in RawPhones : EditProfile(s, raw)
    \/ \E s \in Sessions, code \in SubmittedCodes : VerifyPhoneChange(s, code)
    \/ TickAuth

SpecAuth == InitAuth /\ [][NextAuth]_vars

\* phone_number is unique (models.py: unique=True)
TypeAuth ==
    /\ now \in 0..MaxNow
    /\ DOMAIN users \subseteq UserIds
    /\ \A i, j \in DOMAIN users : users[i].phone_number = users[j].phone_number => i = j

(***************************************************************************)
(* Claims on the verification service (SpecAuth)                           *)
(***************************************************************************)

IsVerify(l) == l.op \in {"verify_code", "verify_phone_change"}

\* the outcome verify_code(p, c) has when called in the current state
Call(p, c) == VerifyCode(users, p, c, now)

Stores(p, c) == \E j \in UserByPhone(users, p) : users[j].verification_code = c

\* C1 as stated: after send_verification_code(P) issued c, the first
\* verify_code(P, c) within 5 minutes succeeds and marks the user verified, and
\* a second verify_code(P, c) with no new code issued in between fails with
\* error type 'invalid'.
C1_Original ==
    \A p \in Phones :
        LET r == Call(p, issued[p].code) IN
        /\ (issued[p].st = "fresh" /\ now <= issued[p].at + ExpirySeconds)
               => (r.ok /\ r.users[r.uid].is_verified)
        /\ issued[p].st = "used" => (~r.ok /\ r.err = "invalid")

\* C1 amended: the first verify_code(P, c) within 5 minutes succeeds and marks
\* the user verified while P's user still stores c; a second verify_code(P, c)
\* with no new code issued for P in between never succeeds: it fails with
\* 'expired' when P's user has no issuance timestamp (as the successful call
\* leaves it) or an expired one, with 'invalid' when verify_phone_change saved
\* a live timestamp back, and with 'not_found' when the user moved to another
\* number.
C1_SingleUse ==
    \A p \in Phones :
        LET r == Call(p, issued[p].code)
            ids == UserByPhone(users, p)
        IN
        /\ (/\ issued[p].st = "fresh"
            /\ now <= issued[p].at + ExpirySeconds
            /\ Stores(p, issued[p].code))
               => (r.ok /\ r.users[r.uid].is_verified)
        /\ issued[p].st = "used" =>
              /\ ~r.ok
              /\ r.err = IF ids = {} THEN "not_found"
                         ELSE IF \A j \in ids :
                                   \/ users[j].verification_code_sent_at = NoTime
                                   \/ now > users[j].verification_code_sent_at + ExpirySeconds
                              THEN "expired"
                              ELSE "invalid"

\* C1 witness: a second verify_code with the consumed code has just failed
\* with 'expired' for a user the first call verified.
C1_Witness ==
    /\ last.op = "verify_code"
    /\ last.err = "expired"
    /\ issued[last.phone].st = "used"
    /\ last.code = issued[last.phone].code
    /\ \E j \in UserByPhone(users, last.phone) :
           users[j].is_verified /\ users[j].verification_code_sent_at = NoTime

\* C2: verify_code(P, c) called more than 5 minutes after the issuance time of
\* the user's current code fails with 'expired' whatever c is and changes no
\* row (the user is not marked verified); a call at or before issuance + 5
\* minutes is never reported as expired.
C2_Expiry ==
    [][IsVerify(last') =>
          \A j \in UserByPhone(users, last'.phone) :
             LET at == users[j].verification_code_sent_at IN
             at # NoTime =>
                  /\ now > at + ExpirySeconds
                        => (last'.err = "expired" /\ users' = users)
                  /\ now <= at + ExpirySeconds => last'.err # "expired"]_vars

\* C2 witness: a call with the stored code has just been refused as expired,
\* past the deadline, and the user is still unverified.
C2_Witness ==
    /\ IsVerify(last)
    /\ last.err = "expired"
    /\ \E j \in UserByPhone(users, last.phone) :
          /\ users[j].verification_code_sent_at # NoTime
          /\ now > users[j].verification_code_sent_at + ExpirySeconds
          /\ users[j].verification_code = last.code
          /\ ~users[j].is_verified

\* C3 as stated: through phone_login, resend_code and edit_profile, a user
\* whose current code was issued less than 1 minute ago is never issued
\* another code.
C3_CooldownEverywhere ==
    [][last'.err = "issued" =>
          \A j \in UserByPhone(users, last'.phone) :
             \/ users[j].verification_code_sent_at = NoTime
             \/ now >= users[j].verification_code_sent_at + CooldownSeconds]_vars

\* C4 as stated: can_resend_code is true only if no code was ever sent to the
\* user or more than 1 minute has passed since the most recent code was
\* issued; it is false immediately after a code is sent and true at every
\* time later than issuance + 60 s.
C4_Original ==
    \A j \in DOMAIN users :
        LET u == users[j] IN
        /\ CanResendCode(u, now)
              => (u.ever_sent_at = NoTime \/ now > u.ever_sent_at + CooldownSeconds)
        /\ (last.err = "issued" /\ u.phone_number = last.phone) => ~CanResendCode(u, now)
        /\ (u.ever_sent_at # NoTime /\ now > u.ever_sent_at + CooldownSeconds)
              => CanResendCode(u, now)

\* C4 amended: can_resend_code is true only if the user has no stored issuance
\* timestamp (no code was ever sent, or a successful verify_code cleared it,
\* even less than 1 minute after the code was issued) or more than 1 minute has
\* passed since the most recent code was issued; it is false immediately after
\* a code is sent and true at every time later than issuance + 60 s.
C4_ResendGate ==
    \A j \in DOMAIN users :
        LET u == users[j] IN
        /\ CanResendCode(u, now)
              => \/ u.verification_code_sent_at = NoTime
                 \/ now > u.ever_sent_at + CooldownSeconds
        /\ u.verification_code_sent_at = NoTime
              => (u.ever_sent_at = NoTime \/ u.is_verified)
        /\ (last.err = "issued" /\ u.phone_number = last.phone) => ~CanResendCode(u, now)
        /\ (u.ever_sent_at # NoTime /\ now > u.ever_sent_at + CooldownSeconds)
              => CanResendCode(u, now)

\* C4 witness: a code was issued to a user less than a minute ago and consumed
\* by a successful verification, and can_resend_code is true.
C4_Witness ==
    \E j \in DOMAIN users :
        /\ users[j].ever_sent_at # NoTime
        /\ now <= users[j].ever_sent_at + CooldownSeconds
        /\ users[j].verification_code_sent_at = NoTime
        /\ CanResendCode(users[j], now)
        /\ IsVerify(last) /\ last.err = "ok" /\ last.phone = users[j].phone_number

\* C5: a session's user_phone is set to P only in a request in which
\* verify_code(P, code) has just succeeded for the code entered in that request.
C5_LoginOnlyAfterVerify ==
    [][\A s \in Sessions :
          (sessions'[s].user_phone # sessions[s].user_phone
             /\ sessions'[s].user_phone # None)
          => /\ IsVerify(last')
             /\ last'.err = "ok"
             /\ last'.phone = sessions'[s].user_phone
             /\ Call(last'.phone, last'.code).ok]_vars

\* C5 witness: a session has just been authenticated by a successful verify_code.
C5_Witness ==
    /\ IsVerify(last)
    /\ last.err = "ok"
    /\ \E s \in Sessions : sessions[s].user_phone = last.phone

(***************************************************************************)
(* Reminder job and the requests that save the Event row (SpecReminder)    *)
(***************************************************************************)

People == {"creator", "alice", "bob"}
Thresholds == {"24h", "1h"}

\* the reminder windows of send_event_reminders, in quarter hours:
\* [now + 23h30, now + 24h30] and [now + 0h30, now + 1h30]
Window24From == 94
Window24To == 98
Window1From == 2
Window1To == 6
\* crontab(minute="*/30"), in quarter hours
BeatPeriod == 2

\* the limit of send_text_blast
TextBlastLimit == 20
\* each request channel sends at most MaxBlasts text blasts in a behaviour
MaxBlasts == 1

\* event_state_date of the one event of the model
EventStart == Window24To
\* the beats of the schedule (crontab(minute="*/30")) the model follows: the
\* first two at which the event is in its 24h window, the first two at which it
\* is in its 1h window, and the one at which it starts
Beats ==
    {EventStart - k :
        k \in {Window24To, Window24To - BeatPeriod, Window1To, Window1To - BeatPeriod, 0}}

\* what secrets.token_urlsafe(6)[:8] can return
ShortCodes == {"Zx3k9QpA", "b7Tn2LmW"}
\* the short_code of the event the specifications start with
FirstCode == "Zx3k9QpA"

\* Event.save: an event without short_code gets the code the loop drew; an
\* event that has one keeps it
EventSave(ev, code) ==
    IF ev.short_code = "" THEN [ev EXCEPT !.short_code = code] ELSE ev

\* the Event object Event.objects.create builds (max_attendees 0 stands for
\* NULL)
NewEvent(creator, start, max, allow, maybe, auto) ==
    [exists |-> TRUE,
     created_by |-> creator,
     is_active |-> TRUE,
     event_state_date |-> start,
     max_attendees |-> max,
     allow_rsvp |-> allow,
     allow_maybe_rsvp |-> maybe,
     auto_reminders_enabled |-> auto,
     reminder_24h_sent |-> FALSE,
     reminder_1h_sent |-> FALSE,
     text_blast_count |-> 0,
     short_code |-> "",
     cover_photo_processing_status |-> "pending",
     cover_photo_avif_url |-> 0,
     cover_photo_webp_url |-> 0]

\* the stored row of an open event of "creator" without capacity limit
FirstEvent == EventSave(NewEvent("creator", EventStart, 0, TRUE, TRUE, TRUE), FirstCode)

\* process_uploaded_image, on success: both derivative URLs (named after the
\* staged file f they were made from) and the status are set
WithCover(ev, f) ==
    [ev EXCEPT !.cover_photo_avif_url = f,
               !.cover_photo_webp_url = f,
               !.cover_photo_processing_status = "complete"]

\* a task message of process_uploaded_image for the staged file f, as delay()
\* publishes it
NewImageJob(f) ==
    [file |-> f, retries |-> 0, pc |-> "queued", countdown |-> 0, error |-> "none"]

ReminderSent(ev, th) ==
    IF th = "24h" THEN ev.reminder_24h_sent ELSE ev.reminder_1h_sent

\* a variant that selects an event only when it starts exactly 24 hours, or
\* exactly one hour, after the run
InWindowExact(ev, th, t) ==
    IF th = "24h"
    THEN ev.event_state_date = t + (Window24From + Window24To) \div 2
    ELSE ev.event_state_date = t + (Window1From + Window1To) \div 2

InWindow(ev, th, t) ==
    IF th = "24h"
    THEN ev.event_state_date >= t + Window24From /\ ev.event_state_date <= t + Window24To
    ELSE ev.event_state_date >= t + Window1From /\ ev.event_state_date <= t + Window1To

\* the filter of events_24h and events_1h
Qualifies(ev, th, t) ==
    /\ ev.exists
    /\ InWindow(ev, th, t)
    /\ ev.is_active
    /\ ~ReminderSent(ev, th)
    /\ ev.auto_reminders_enabled

\* RSVP.objects.filter(event=event, status="attending")
Attending(rs) == {u \in People : rs[u] = "attending"}

\* event.reminder_<th>_sent = True on the loaded object
MarkSent(ev, th) ==
    IF th = "24h"
    THEN [ev EXCEPT !.reminder_24h_sent = TRUE]
    ELSE [ev EXCEPT !.reminder_1h_sent = TRUE]

Jobs == {"j1", "j2"}
IdleJob ==
    [pc |-> "idle", th |-> "24h", at |-> 0, ev |-> NoEvent, todo |-> {}, retries |-> 0]

\* history: a save has just put a reminder flag back from true to false
Unlatches(ev) ==
    \E th \in Thresholds : ReminderSent(event, th) /\ ~ReminderSent(ev, th)

\* the task is started by the beat schedule: now = timezone.now()
StartReminders(j) ==
    /\ jobs[j].pc = "idle"
    /\ ~beat
    /\ beat' = TRUE
    /\ jobs' = [jobs EXCEPT ![j] = [IdleJob EXCEPT !.pc = "query", !.at = now]]
    /\ hist' = [hist EXCEPT !.overlapped = @ \/ \E k \in Jobs : jobs[k].pc # "idle"]
    /\ last' = NoOp
    /\ UNCHANGED <<now, authVars, event, rsvps, reqs, sent, questions, extraVars>>

\* what follows the loop over the events of one threshold
AfterThreshold(job) ==
    IF job.th = "24h"
    THEN [job EXCEPT !.pc = "query", !.th = "1h", !.ev = NoEvent, !.todo = {}]
    ELSE IdleJob

\* the events_<th> queryset is evaluated and, for the event it yields, the
\* queryset of its attending RSVPs
QueryEvents(j) ==
    /\ jobs[j].pc = "query"
    /\ jobs' = [jobs EXCEPT ![j] =
           IF Qualifies(event, @.th, @.at)
           THEN [@ EXCEPT !.pc = "loop", !.ev = event, !.todo = Attending(rsvps)]
           ELSE AfterThreshold(@)]
    /\ last' = NoOp
    /\ UNCHANGED <<now, authVars, event, rsvps, beat, reqs, sent, hist, questions, extraVars>>

\* one pass of `for rsvp in rsvps`: the gateway accepts the message or not
SendReminder(j, u, success) ==
    /\ jobs[j].pc = "loop"
    /\ u \in jobs[j].todo
    /\ jobs' = [jobs EXCEPT ![j].todo = @ \ {u}]
    /\ sent' = IF success /\ sent[u][jobs[j].th] < 2
               THEN [sent EXCEPT ![u][jobs[j].th] = @ + 1]
               ELSE sent
    /\ hist' = IF success THEN hist
               ELSE [hist EXCEPT !.failed = @ \cup {<<u, jobs[j].th>>}]
    /\ last' = NoOp
    /\ UNCHANGED <<now, authVars, event, rsvps, beat, reqs, questions, extraVars>>

\* event.reminder_<th>_sent = True; event.save(): every column of the row is
\* written from the object the queryset loaded
MarkReminderSent(j) ==
    /\ jobs[j].pc = "loop"
    /\ jobs[j].todo = {}
    /\ event' = MarkSent(jobs[j].ev, jobs[j].th)
    /\ hist' = [hist EXCEPT !.unlatched = @ \/ Unlatches(event'),
                            !.ended = @ \cup {jobs[j].th}]
    /\ jobs' = [jobs EXCEPT ![j] = AfterThreshold(@)]
    /\ last' = NoOp
    /\ UNCHANGED <<now, authVars, rsvps, beat, reqs, sent, questions, extraVars>>

NoReq == [kind |-> "none"]
NoHist ==
    [overlapped |-> FALSE, unlatched |-> FALSE, maxChanged |-> FALSE, edits |-> 0,
     blasts |-> [r \in {"r1", "r2"} |-> 0], failed |-> {}, ended |-> {}]
\* at most MaxEdits edit_event requests are made in a behaviour
MaxEdits == 1

\* edit_event up to the POST handling: the Event row is loaded
EditEventLoad(r) ==
    /\ reqs[r] = NoReq
    /\ event.exists /\ event.is_active
    /\ hist.edits < MaxEdits
    /\ reqs' = [reqs EXCEPT ![r] = [kind |-> "edit_event", ev |-> event, uploaded |-> FALSE]]
    /\ hist' = [hist EXCEPT !.edits = @ + 1]
    /\ last' = NoOp
    /\ UNCHANGED <<now, authVars, event, rsvps, jobs, beat, sent, questions, extraVars>>

\* the fields edit_event assigns from the form (the start date is resubmitted
\* unchanged)
EditedEvent(ev, max, allow, maybe, auto) ==
    [ev EXCEPT !.max_attendees = max,
               !.allow_rsvp = allow,
               !.allow_maybe_rsvp = allow /\ maybe,
               !.auto_reminders_enabled = auto]

\* edit_event, POST with a cover_photo file, up to delay(): the start date
\* has passed its check, the upload is staged, the loaded object's cover
\* fields are reset in memory and the image job is queued
EditEventUpload(r) ==
    /\ reqs[r] # NoReq /\ reqs[r].kind = "edit_event" /\ ~reqs[r].uploaded
    /\ reqs[r].ev.event_state_date > now
    /\ LET f == Len(imageJobs) + 1 IN
          /\ files' = files \cup {f}
          /\ imageJobs' = Append(imageJobs, NewImageJob(f))
    /\ reqs' = [reqs EXCEPT ![r] =
           [@ EXCEPT !.uploaded = TRUE,
                     !.ev = [@ EXCEPT !.cover_photo_avif_url = 0,
                                      !.cover_photo_processing_status = "pending"]]]
    /\ last' = NoOp
    /\ UNCHANGED <<now, authVars, event, rsvps, questions, jobVars, hist, answers, rows, moreVars,
                   organizers, sms>>

\* edit_event: the reason the form is refused for, or None; a request that
\* has staged an upload is past both checks
EditRejection(req, t) ==
    IF req.uploaded THEN None
    ELSE IF req.ev.event_state_date <= t THEN "start_date"
    ELSE IF req.ev.cover_photo_avif_url = 0 THEN "no_cover_photo"
    ELSE None

\* edit_event, POST: the form is refused (the start date must be in the
\* future, the event must have a cover photo or the form must bring one), or
\* the loaded object is modified and saved whole and the questions are
\* replaced by those of the form
EditEventSave(r, max, allow, maybe, auto, required) ==
    /\ reqs[r] # NoReq /\ reqs[r].kind = "edit_event"
    /\ reqs' = [reqs EXCEPT ![r] = NoReq]
    /\ IF EditRejection(reqs[r], now) # None
       THEN UNCHANGED <<event, questions, hist>>
       ELSE /\ event' = EditedEvent(reqs[r].ev, max, allow, maybe, auto)
            /\ questions' = required
            /\ hist' = [hist EXCEPT
                   !.unlatched = @ \/ Unlatches(event'),
                   !.maxChanged = @ \/ event'.max_attendees # event.max_attendees]
    /\ last' = NoOp
    /\ UNCHANGED <<now, authVars, rsvps, jobs, beat, sent, extraVars>>

\* send_text_blast up to the limit check: the Event row is loaded
SendTextBlastLoad(r) ==
    /\ reqs[r] = NoReq
    /\ event.exists /\ event.is_active
    /\ event.text_blast_count < TextBlastLimit
    /\ hist.blasts[r] < MaxBlasts
    /\ Attending(rsvps) # {}
    /\ reqs' = [reqs EXCEPT ![r] = [kind |-> "send_text_blast", ev |-> event]]
    /\ hist' = [hist EXCEPT !.blasts[r] = @ + 1]
    /\ last' = NoOp
    /\ UNCHANGED <<now, authVars, event, rsvps, jobs, beat, sent, questions, extraVars>>

\* send_text_blast, POST: TextBlast.objects.create(...), then
\* event.text_blast_count += 1; event.save()
SendTextBlastSave(r) ==
    /\ reqs[r] # NoReq /\ reqs[r].kind = "send_text_blast"
    /\ reqs' = [reqs EXCEPT ![r] = NoReq]
    /\ textBlasts' = textBlasts + 1
    /\ event' = [reqs[r].ev EXCEPT !.text_blast_count = @ + 1]
    /\ hist' = [hist EXCEPT !.unlatched = @ \/ Unlatches(event')]
    /\ last' = NoOp
    /\ UNCHANGED <<now, authVars, rsvps, jobs, beat, sent, questions, answers, rows,
                   organizers, files, imageJobs, sms, invitations, eventQuestions,
                   rsvpAnswers, otherEvents>>

\* the next beat of the schedule
TickReminder ==
    /\ \E i \in Beats : i > now /\ now' = i /\ \A k \in Beats : k > now => k >= i
    /\ beat' = FALSE
    /\ last' = NoOp
    /\ UNCHANGED <<authVars, event, rsvps, jobs, reqs, sent, hist, questions, extraVars>>

ReminderReqs == {"r1"}

\* an event with one attending guest and one undecided guest, at the beat at
\* which its 24h window opens
InitReminder ==
    /\ now = 0
    /\ users = <<>>
    /\ nextId = 1
    /\ sessions = [s \in Sessions |-> EmptySession]
    /\ issued = [p \in Phones |-> NoIssue]
    /\ codesSent = 0
    /\ last = NoOp
    /\ event = WithCover(FirstEvent, 1)
    /\ rsvps = [u \in People |->
                   IF u = "alice" THEN "attending" ELSE IF u = "bob" THEN "maybe" ELSE "none"]
    /\ questions = FALSE
    /\ answers = <<>>
    /\ rows = <<>>
    /\ textBlasts = 0
    /\ invitations = EmptyBag
    /\ eventQuestions = <<>>
    /\ rsvpAnswers = {}
    /\ otherEvents = EmptyBag
    /\ organizers = {}
    /\ files = {}
    /\ imageJobs = <<>>
    /\ sms = <<>>
    /\ jobs = [j \in Jobs |-> IdleJob]
    /\ beat = FALSE
    /\ reqs = [r \in ReminderReqs |-> NoReq]
    /\ sent = [u \in People |-> [th \in Thresholds |-> 0]]
    /\ hist = NoHist

NextReminder ==
    \/ \E j \in Jobs : StartReminders(j)
    \/ \E j \in Jobs : QueryEvents(j)
    \/ \E j \in Jobs, u \in People, success \in BOOLEAN : SendReminder(j, u, success)
    \/ \E j \in Jobs : MarkReminderSent(j)
    \/ \E r \in ReminderReqs : EditEventLoad(r)
    \/ \E r \in ReminderReqs, auto \in BOOLEAN : EditEventSave(r, 0, TRUE, TRUE, auto, FALSE)
    \/ \E r \in ReminderReqs : SendTextBlastLoad(r)
    \/ \E r \in ReminderReqs : SendTextBlastSave(r)
    \/ TickReminder

SpecReminder == InitReminder /\ [][NextReminder]_vars

\* the codes verify_code accepts for phone in the current state
AcceptedCodes(phone) == {c \in SubmittedCodes : VerifyCode(users, phone, c, now).ok}

\* C29: a verify_code call that fails (not_found, expired or invalid) leaves
\* verification_code, verification_code_sent_at and is_verified of every user
\* unchanged; a successful call sets is_verified of the user and clears the
\* other two, and changes no other user.
C29_FailedVerifyChangesNothing ==
    \A phone \in Phones, code \in SubmittedCodes :
        LET r == VerifyCode(users, phone, code, now) IN
        /\ DOMAIN r.users = DOMAIN users
        /\ ~r.ok =>
              /\ r.err \in {"not_found", "expired", "invalid"}
              /\ \A i \in DOMAIN users :
                    /\ r.users[i].verification_code = users[i].verification_code
                    /\ r.users[i].verification_code_sent_at = users[i].verification_code_sent_at
                    /\ r.users[i].is_verified = users[i].is_verified
        /\ r.ok =>
              /\ r.users[r.uid].is_verified
              /\ r.users[r.uid].verification_code = ""
              /\ r.users[r.uid].verification_code_sent_at = NoTime
              /\ \A i \in DOMAIN users \ {r.uid} : r.users[i] = users[i]

\* C29 witness: a verify_code call has just failed as invalid, and the user
\* still has the code and the timestamp it had.
C29_Witness ==
    /\ last.op = "verify_code" /\ last.err = "invalid"
    /\ \E j \in UserByPhone(users, last.phone) :
          /\ users[j].verification_code \in Codes
          /\ users[j].verification_code # last.code
          /\ users[j].verification_code_sent_at # NoTime

\* C30: at any time verify_code accepts at most one code for a user; right
\* after send_verification_code generated a code, the user's row stores that
\* code with the current time, the cooldown has started and the new code is
\* the only one accepted, whether the one delivery attempt succeeded or the
\* call reported a failure.
C30_OneAcceptedCode ==
    /\ \A phone \in Phones : Cardinality(AcceptedCodes(phone)) <= 1
    /\ last.err = "issued" =>
          /\ \E j \in UserByPhone(users, last.phone) :
                /\ users[j].verification_code = last.code
                /\ users[j].verification_code_sent_at = now
                /\ ~CanResendCode(users[j], now)
          /\ AcceptedCodes(last.phone) = {last.code}

\* C30 witness: a resend has just generated a code for a number that had one
\* before, delivery failed, and the new code is stored.
C30_Witness ==
    /\ last.op = "resend_code" /\ last.err = "issued" /\ ~last.ok
    /\ \E j \in UserByPhone(users, last.phone) :
          users[j].verification_code = last.code

\* C31 as stated: in no reachable state does verify_code accept, for a phone
\* number, a submitted code other than the code send_verification_code last
\* generated for it and that has not been consumed; in particular it never
\* accepts the empty code.
C31_OnlyIssuedCodeVerifies ==
    \A phone \in Phones : \A c \in AcceptedCodes(phone) :
        /\ c # ""
        /\ issued[phone].st = "fresh"
        /\ issued[phone].code = c

(***************************************************************************)
(* Claims on the reminder latch (SpecReminder)                             *)
(***************************************************************************)

AtMostOnce == \A u \in People, th \in Thresholds : sent[u][th] <= 1

\* C6 as stated: when send_event_reminders runs to completion twice in sequence
\* (no two invocations overlap) while the event is inside the same window, the
\* second run sends nothing: every attending RSVP holder is sent at most one
\* 24h reminder and at most one 1h reminder.
C6_SecondRunSendsNothing == ~hist.overlapped => AtMostOnce

\* C7 as stated: for each threshold the reminder batch is sent once, also when
\* two invocations of send_event_reminders overlap in time: as long as no save
\* has put a flag back, no attending RSVP holder is sent the same threshold's
\* reminder twice.
C7_OnceUnderOverlap == ~hist.unlatched => AtMostOnce

\* C8 as stated: once reminder_24h_sent or reminder_1h_sent of the event is
\* true, no operation writes it back to false.
C8_LatchNeverReset ==
    [][\A th \in Thresholds : ReminderSent(event, th) => ReminderSent(event', th)]_vars

\* a step of the recipient loop of job j for recipient u
ReminderAttempt(j, u) ==
    /\ jobs[j].pc = "loop" /\ jobs'[j].pc = "loop"
    /\ u \in jobs[j].todo /\ u \notin jobs'[j].todo

\* the recipient loop of job j has ended and the job has gone on
ReminderLoopEnds(j) ==
    /\ jobs[j].pc = "loop" /\ jobs[j].todo = {}
    /\ jobs'[j].pc # "loop"

\* C23 as stated: when the recipient loop of a selected event ends, the flag
\* of the threshold is true on the event, also when sends of the loop failed,
\* and once such a loop has ended, a recipient whose send failed for the
\* threshold is not attempted again for it by any later run.
C23_FailedNotAttemptedAgain ==
    [][\A j \in Jobs :
          /\ ReminderLoopEnds(j) => ReminderSent(event', jobs[j].th)
          /\ \A u \in People :
                ReminderAttempt(j, u) /\ jobs[j].th \in hist.ended
                    => <<u, jobs[j].th>> \notin hist.failed]_vars

(***************************************************************************)
(* RSVP engine (SpecRsvp)                                                  *)
(***************************************************************************)

RsvpStatuses == {"attending", "maybe", "not_attending"}
\* what a client can post as status: the three statuses and anything else
SubmittedStatuses == RsvpStatuses \cup {"going"}

\* the largest max_attendees tried on the event forms
MaxCapacity == 2
\* validate_max_attendees: NULL (0) when unlimited, else a positive number
MaxAttendeesInputs == {0} \cup (1..MaxCapacity)

AttendeeCount(rs) == Cardinality(Attending(rs))

\* mutant: the event is full only above its capacity
IsFullAbove(ev, rs) ==
    IF ev.max_attendees # 0 THEN AttendeeCount(rs) > ev.max_attendees ELSE FALSE

\* Event.is_full
IsFull(ev, rs) ==
    IF ev.max_attendees # 0 THEN AttendeeCount(rs) >= ev.max_attendees ELSE FALSE

\* _build_event_user_state: the creator is given an attending RSVP
BuildEventUserState(ev, rs, u) ==
    IF u = ev.created_by /\ rs[u] # "attending"
    THEN [rs EXCEPT ![u] = "attending"]
    ELSE rs

\* mutant: only 'attending' asks for the required answers
RequiresAnswersAttendingOnly(status) == status = "attending"

\* rsvp_event, requires_answers
RequiresAnswers(status) == status \in {"attending", "maybe"}

\* mutant: with RSVPs closed any 'not_attending' passes, RSVP or not
ClosedRsvpsAnyWithdrawal(ev, rs, u, status) ==
    ~ev.allow_rsvp /\ status # "not_attending"

\* rsvp_event: RSVPs are closed and the submission is not a withdrawal of an
\* existing RSVP
ClosedRsvps(ev, rs, u, status) ==
    ~ev.allow_rsvp /\ (status # "not_attending" \/ rs[u] = "none")

\* the checks of rsvp_event between the creator's early return and
\* update_or_create: the reason the submission is rejected for, or None
RsvpRejection(ev, qs, rs, u, status, answered) ==
    IF status \notin RsvpStatuses THEN "invalid_status"
    ELSE IF ClosedRsvps(ev, rs, u, status) THEN "closed"
    ELSE IF status = "maybe" /\ ~ev.allow_maybe_rsvp THEN "no_maybe"
    ELSE IF RequiresAnswers(status) /\ qs /\ ~answered THEN "missing_answers"
    ELSE IF status = "attending" /\ IsFull(ev, rs) /\ rs[u] # "attending" THEN "full"
    ELSE None

\* create_event, POST by the creator
CreateEvent(max, allow, maybe, required) ==
    /\ ~event.exists
    /\ ~BagIn(FirstCode, otherEvents)
    /\ event' = EventSave(NewEvent("creator", EventStart, max, allow, allow /\ maybe, TRUE),
                          FirstCode)
    /\ LET f == Len(imageJobs) + 1 IN
          /\ files' = files \cup {f}
          /\ imageJobs' = Append(imageJobs, NewImageJob(f))
    /\ questions' = required
    /\ last' = NoOp
    /\ UNCHANGED <<now, authVars, rsvps, jobVars, reqs, hist, answers, rows, moreVars, organizers, sms>>

\* event_detail, GET by a logged-in user
EventDetail(u) ==
    /\ event.exists /\ event.is_active
    /\ rsvps' = BuildEventUserState(event, rsvps, u)
    /\ last' = NoOp
    /\ UNCHANGED <<now, authVars, event, questions, jobVars, reqs, hist, extraVars>>

\* rsvp_event, POST, up to update_or_create: the creator's early return (an
\* HX-Request is answered through _build_event_user_state), then the checks
RsvpEventCheck(u, status, answered, hx) ==
    LET err == RsvpRejection(event, questions, rsvps, u, status, answered) IN
    /\ event.exists /\ event.is_active
    /\ reqs[u] = NoReq
    /\ last' = NoOp
    /\ UNCHANGED <<now, authVars, event, questions, jobVars, hist, extraVars>>
    /\ IF u = event.created_by
       THEN /\ rsvps' = IF hx THEN BuildEventUserState(event, rsvps, u) ELSE rsvps
            /\ reqs' = reqs
       ELSE /\ rsvps' = rsvps
            /\ reqs' = IF err = None
                       THEN [reqs EXCEPT ![u] = [kind |-> "rsvp_event", status |-> status,
                                                 answered |-> answered]]
                       ELSE reqs

\* rsvp_event from update_or_create on
RsvpEventWrite(u) ==
    /\ reqs[u] # NoReq /\ reqs[u].kind = "rsvp_event"
    /\ rsvps' = [rsvps EXCEPT ![u] = reqs[u].status]
    /\ answers' = [answers EXCEPT ![u] =
           IF reqs[u].status = "not_attending" THEN FALSE ELSE reqs[u].answered]
    /\ reqs' = [reqs EXCEPT ![u] = NoReq]
    /\ last' = NoOp
    /\ UNCHANGED <<now, authVars, event, questions, jobVars, hist, rows, moreVars, organizers,
                   files, imageJobs, sms>>

RsvpReqs == People \cup ReminderReqs

\* the submissions tried: the answer to the required question is left empty
\* only where rsvp_event looks at it, and only the creator's request is tried
\* both with and without the HX-Request header
AnswerInputs(status) ==
    IF questions /\ status \in {"attending", "maybe"} THEN BOOLEAN ELSE {TRUE}
HxInputs(u) == IF event.exists /\ u = event.created_by THEN BOOLEAN ELSE {TRUE}

\* the creator is logged in and no event exists yet
InitRsvp ==
    /\ now = 0
    /\ users = <<>>
    /\ nextId = 1
    /\ sessions = [s \in Sessions |-> EmptySession]
    /\ issued = [p \in Phones |-> NoIssue]
    /\ codesSent = 0
    /\ last = NoOp
    /\ event = NoEvent
    /\ rsvps = [u \in People |-> "none"]
    /\ questions = FALSE
    /\ answers = [u \in People |-> FALSE]
    /\ rows = <<>>
    /\ textBlasts = 0
    /\ invitations = EmptyBag
    /\ eventQuestions = <<>>
    /\ rsvpAnswers = {}
    /\ otherEvents = EmptyBag
    /\ organizers = {}
    /\ files = {}
    /\ imageJobs = <<>>
    /\ sms = <<>>
    /\ jobs = [j \in Jobs |-> IdleJob]
    /\ beat = FALSE
    /\ reqs = [r \in RsvpReqs |-> NoReq]
    /\ sent = [u \in People |-> [th \in Thresholds |-> 0]]
    /\ hist = NoHist

NextRsvp ==
    \/ \E max \in MaxAttendeesInputs, allow, maybe, required \in BOOLEAN :
          CreateEvent(max, allow, maybe, required)
    \/ \E u \in People : EventDetail(u)
    \/ \E u \in People, status \in SubmittedStatuses :
          \E answered \in AnswerInputs(status), hx \in HxInputs(u) :
             RsvpEventCheck(u, status, answered, hx)
    \/ \E u \in People : RsvpEventWrite(u)
    \/ \E r \in ReminderReqs : EditEventLoad(r)
    \/ \E r \in ReminderReqs : EditEventUpload(r)
    \/ \E r \in ReminderReqs, max \in MaxAttendeesInputs, allow, maybe, required \in BOOLEAN :
          EditEventSave(r, max, allow, maybe, TRUE, required)

SpecRsvp == InitRsvp /\ [][NextRsvp]_vars

(***************************************************************************)
(* Claims on the RSVP engine (SpecRsvp)                                    *)
(***************************************************************************)

AttendingWrite(answered) ==
    [kind |-> "rsvp_event", status |-> "attending", answered |-> answered]

\* a guest's submission of 'attending', with the required answers given, comes
\* to the capacity check of an open event that has exactly max_attendees
\* attending RSVPs
AtCapacity(u) ==
    /\ event.exists
    /\ u # event.created_by
    /\ event.allow_rsvp
    /\ event.max_attendees # 0
    /\ AttendeeCount(rsvps) = event.max_attendees

\* C9: for an event with max_attendees = N that has N attending RSVPs, a
\* submission of 'attending' by a user who holds no attending RSVP (none,
\* 'maybe' or 'not_attending') is rejected as full and no step of that request
\* changes the user's RSVP, while a re-submission of 'attending' by a user who
\* holds an attending RSVP passes the capacity check.
C9_CapacityRule ==
    [][\A u \in People :
          AtCapacity(u) =>
             LET r == RsvpRejection(event, questions, rsvps, u, "attending", TRUE) IN
             IF rsvps[u] # "attending"
             THEN /\ r = "full"
                  /\ reqs[u] = NoReq => (/\ rsvps'[u] = rsvps[u]
                                          /\ \A a \in BOOLEAN : reqs'[u] # AttendingWrite(a))
             ELSE r = None]_vars

\* C9 witness: at a full event an attending guest's re-submission of
\* 'attending' has been accepted and is about to be saved, while another guest
\* holds no attending RSVP and has no accepted submission.
C9_Witness ==
    \E u, v \in People :
        /\ AtCapacity(u) /\ AtCapacity(v)
        /\ rsvps[u] = "attending" /\ reqs[u] = AttendingWrite(TRUE)
        /\ rsvps[v] # "attending" /\ reqs[v] = NoReq

\* C10 as stated: while max_attendees = N of the event is not changed, the
\* number of attending RSVPs never exceeds N, under any interleaving of
\* rsvp_event submissions and including the creator's forced RSVP.
C10_CapacityNeverExceeded ==
    (event.exists /\ event.max_attendees # 0 /\ ~hist.maxChanged)
        => AttendeeCount(rsvps) <= event.max_attendees

\* C12 as stated: in every state after the event is created its creator
\* holds an RSVP with status 'attending', and no rsvp_event submission of the
\* creator is rejected or changes that RSVP to another status.
C12_CreatorAlwaysAttending ==
    event.exists =>
        /\ rsvps[event.created_by] = "attending"
        /\ reqs[event.created_by] = NoReq

Guests == People \ {"creator"}

\* C13: a submission of 'attending' or 'maybe' that leaves the required
\* question unanswered is rejected, and a request that is rejected changes no
\* RSVP and no answer; a submission of 'not_attending' is never rejected for
\* missing answers, and once it is saved the RSVP is 'not_attending' and holds
\* no answer.
C13_RequiredAnswers ==
    [][\A u \in Guests :
          /\ (event.exists /\ questions) =>
                \A st \in {"attending", "maybe"} :
                    RsvpRejection(event, questions, rsvps, u, st, FALSE) # None
          /\ (reqs[u] = NoReq /\ reqs'[u] # NoReq /\ questions
                 /\ reqs'[u].status \in {"attending", "maybe"}) => reqs'[u].answered
          /\ reqs[u] = NoReq => (rsvps'[u] = rsvps[u] /\ answers'[u] = answers[u])
          /\ event.exists =>
                RsvpRejection(event, questions, rsvps, u, "not_attending", FALSE)
                    # "missing_answers"
          /\ (reqs[u] # NoReq /\ reqs'[u] = NoReq /\ reqs[u].status = "not_attending")
                => (rsvps'[u] = "not_attending" /\ ~answers'[u])]_vars

\* C13 witness: on an event with a required question a guest whose RSVP holds
\* an answer has withdrawn, the RSVP is 'not_attending' without an answer,
\* while another guest's answered submission has been accepted.
C13_Witness ==
    \E u, v \in Guests :
        /\ event.exists /\ questions
        /\ rsvps[u] = "not_attending" /\ ~answers[u] /\ reqs[u] = NoReq
        /\ reqs[v] # NoReq /\ reqs[v].status = "maybe" /\ reqs[v].answered
        /\ rsvps[v] = "attending" /\ answers[v]

\* C14: while allow_rsvp is false a guest's submission is accepted only if it
\* is 'not_attending' and the guest already has an RSVP; every other submission
\* is rejected, and a request that is rejected creates or changes no RSVP.
C14_ClosedRsvps ==
    [][\A u \in Guests :
          (event.exists /\ ~event.allow_rsvp) =>
             /\ (reqs[u] = NoReq /\ reqs'[u] # NoReq)
                   => (reqs'[u].status = "not_attending" /\ rsvps[u] # "none")
             /\ \A st \in SubmittedStatuses, a \in BOOLEAN :
                   (st # "not_attending" \/ rsvps[u] = "none")
                      => RsvpRejection(event, questions, rsvps, u, st, a) # None
             /\ reqs[u] = NoReq => rsvps'[u] = rsvps[u]]_vars

\* C14 witness: RSVPs are closed, a guest who holds an RSVP has submitted
\* 'not_attending' and the submission was accepted, while a guest without an
\* RSVP has no accepted submission.
C14_Witness ==
    \E u, v \in Guests :
        /\ event.exists /\ ~event.allow_rsvp
        /\ rsvps[u] \in {"attending", "maybe"}
        /\ reqs[u] # NoReq /\ reqs[u].status = "not_attending"
        /\ rsvps[v] = "none" /\ reqs[v] = NoReq

(***************************************************************************)
(* Concurrent RSVP upserts of one user (SpecUpsert)                        *)
(***************************************************************************)

\* the browser tabs from which the same guest submits rsvp_event concurrently
Tabs == {"t1", "t2"}

UpsertHist == [accepted |-> {}, saved |-> FALSE, error |-> FALSE]

\* what a step of SpecUpsert leaves alone
upsertFrame ==
    <<now, authVars, last, event, rsvps, questions, answers, organizers, files,
      imageJobs, sms, moreVars, jobVars>>

\* mutant: the table has no unique constraint on (user, event)
UniqueViolationUnenforced(rs) == FALSE

\* unique_together = ["user", "event"]: an INSERT for the pair is refused when
\* a row of the pair exists
UniqueViolation(rs) == Len(rs) >= 1

\* rsvp_event up to update_or_create, on an open event without capacity: the
\* submission is accepted when its status is valid
UpsertBegin(t, status) ==
    /\ reqs[t] = NoReq
    /\ status \in RsvpStatuses
    /\ reqs' = [reqs EXCEPT ![t] = [kind |-> "rsvp_event", status |-> status, pc |-> "get"]]
    /\ hist' = [hist EXCEPT !.accepted = @ \cup {status}]
    /\ UNCHANGED <<rows, upsertFrame>>

\* the outcome of get(): a row to save into, no row, or an exception that
\* leaves update_or_create and the view (MultipleObjectsReturned, or the
\* IntegrityError raised again when the row is still missing)
UpsertLookup(t, missing) ==
    IF Len(rows) = 1
    THEN /\ reqs' = [reqs EXCEPT ![t].pc = "save"]
         /\ UNCHANGED hist
    ELSE IF Len(rows) = 0 /\ missing = "create"
    THEN /\ reqs' = [reqs EXCEPT ![t].pc = "create"]
         /\ UNCHANGED hist
    ELSE /\ reqs' = [reqs EXCEPT ![t] = NoReq]
         /\ hist' = [hist EXCEPT !.error = TRUE]

\* update_or_create: the row of the pair is looked up (get_or_create's get)
UpsertGet(t) ==
    /\ reqs[t] # NoReq /\ reqs[t].pc = "get"
    /\ UpsertLookup(t, "create")
    /\ UNCHANGED <<rows, upsertFrame>>

\* update_or_create: no row was found, so one is inserted; an IntegrityError
\* sends get_or_create back to the lookup
UpsertCreate(t) ==
    /\ reqs[t] # NoReq /\ reqs[t].pc = "create"
    /\ IF UniqueViolation(rows)
       THEN /\ reqs' = [reqs EXCEPT ![t].pc = "get_again"]
            /\ UNCHANGED <<rows, hist>>
       ELSE /\ rows' = Append(rows, reqs[t].status)
            /\ reqs' = [reqs EXCEPT ![t] = NoReq]
            /\ hist' = [hist EXCEPT !.saved = TRUE]
    /\ UNCHANGED upsertFrame

\* update_or_create: the lookup after an IntegrityError; the error is raised
\* again when the row is still not there
UpsertGetAgain(t) ==
    /\ reqs[t] # NoReq /\ reqs[t].pc = "get_again"
    /\ UpsertLookup(t, "raise")
    /\ UNCHANGED <<rows, upsertFrame>>

\* update_or_create: the row found is given the submitted status and saved
UpsertSave(t) ==
    /\ reqs[t] # NoReq /\ reqs[t].pc = "save"
    /\ rows' = [rows EXCEPT ![1] = reqs[t].status]
    /\ reqs' = [reqs EXCEPT ![t] = NoReq]
    /\ hist' = [hist EXCEPT !.saved = TRUE]
    /\ UNCHANGED upsertFrame

\* an open event without capacity; the guest has not answered yet
InitUpsert ==
    /\ now = 0
    /\ users = <<>>
    /\ nextId = 1
    /\ sessions = [s \in Sessions |-> EmptySession]
    /\ issued = [p \in Phones |-> NoIssue]
    /\ codesSent = 0
    /\ last = NoOp
    /\ event = WithCover(FirstEvent, 1)
    /\ rsvps = [u \in People |-> "none"]
    /\ questions = FALSE
    /\ answers = <<>>
    /\ rows = <<>>
    /\ textBlasts = 0
    /\ invitations = EmptyBag
    /\ eventQuestions = <<>>
    /\ rsvpAnswers = {}
    /\ otherEvents = EmptyBag
    /\ organizers = {}
    /\ files = {}
    /\ imageJobs = <<>>
    /\ sms = <<>>
    /\ jobs = [j \in Jobs |-> IdleJob]
    /\ beat = FALSE
    /\ reqs = [t \in Tabs |-> NoReq]
    /\ sent = [u \in People |-> [th \in Thresholds |-> 0]]
    /\ hist = UpsertHist

NextUpsert ==
    \/ \E t \in Tabs, status \in SubmittedStatuses : UpsertBegin(t, status)
    \/ \E t \in Tabs : UpsertGet(t)
    \/ \E t \in Tabs : UpsertCreate(t)
    \/ \E t \in Tabs : UpsertGetAgain(t)
    \/ \E t \in Tabs : UpsertSave(t)

SpecUpsert == InitUpsert /\ [][NextUpsert]_vars

\* C11: concurrent rsvp_event submissions of one user for one event leave at
\* most one RSVP row for the pair, exactly one as soon as a submission has been
\* saved, whose status is the status of an accepted submission; no
\* interleaving produces two rows or lets a uniqueness error out of the view.
C11_SingleRow ==
    /\ Len(rows) <= 1
    /\ hist.saved => Len(rows) = 1
    /\ \A i \in 1..Len(rows) : rows[i] \in hist.accepted
    /\ ~hist.error

\* C11 witness: two submissions raced to insert the row; the one that lost got
\* the IntegrityError, looked the row up again and saved its status into it.
C11_Witness ==
    /\ Len(rows) = 1
    /\ Cardinality(hist.accepted) >= 2
    /\ \E t \in Tabs : reqs[t] # NoReq /\ reqs[t].pc = "get_again"

(***************************************************************************)
(* The cover photo job, process_uploaded_image (SpecImage)                 *)
(***************************************************************************)

\* @shared_task(bind=True, max_retries=3) of process_uploaded_image
ImageMaxRetries == 3

\* mutant: every retry is scheduled after the same delay
RetryCountdownFlat(retries) == 60

\* countdown = 60 * (2 ** self.request.retries), in seconds
RetryCountdown(retries) == 60 * (2 ^ retries)

\* what makes an execution raise: img.verify() refuses the staged file, or
\* writing a derivative to the storage fails
ImageFailures == {"verify", "storage"}

ImageJobIds == 1..Len(imageJobs)

\* process_uploaded_image up to the first save: the event is loaded and its
\* status alone is saved as 'processing'
ImageStart(i) ==
    /\ i \in ImageJobIds /\ imageJobs[i].pc = "queued"
    /\ event.exists
    /\ event' = [event EXCEPT !.cover_photo_processing_status = "processing"]
    /\ imageJobs' = [imageJobs EXCEPT ![i].pc = "running"]
    /\ last' = NoOp
    /\ UNCHANGED <<now, authVars, rsvps, questions, jobVars, reqs, hist, answers, rows, moreVars,
                   organizers, files, sms>>

\* mutant: the staged file is removed at the end of every execution
StagedAfterAlways(fs, f, cause) == fs \ {f}

\* os.remove(temp_file_path) is reached only after the save of 'complete';
\* the except clause does not touch the file
StagedAfter(fs, f, cause) == IF cause = "none" THEN fs \ {f} ELSE fs

\* process_uploaded_image from the file check on.  Without an exception the
\* derivatives are written, the two URLs and the status are saved and the
\* staged file is removed.  With one, the handler saves the status 'failed',
\* then retries the task while retries < max_retries and returns
\* success = False otherwise.
ImageFinish(i, cause) ==
    LET job == imageJobs[i] IN
    /\ i \in ImageJobIds /\ job.pc = "running"
    /\ event.exists
    /\ IF cause = "none"
       THEN /\ job.file \in files
            /\ event' = WithCover(event, job.file)
            /\ files' = StagedAfter(files, job.file, cause)
            /\ imageJobs' = [imageJobs EXCEPT ![i] = [job EXCEPT !.pc = "success",
                                                                !.error = "none"]]
       ELSE /\ event' = [event EXCEPT !.cover_photo_processing_status = "failed"]
            /\ files' = StagedAfter(files, job.file, cause)
            /\ imageJobs' = [imageJobs EXCEPT ![i] =
                   IF job.retries < ImageMaxRetries
                   THEN [job EXCEPT !.pc = "queued",
                                    !.retries = @ + 1,
                                    !.countdown = RetryCountdown(job.retries),
                                    !.error = cause]
                   ELSE [job EXCEPT !.pc = "failure", !.error = cause]]
    /\ last' = NoOp
    /\ UNCHANGED <<now, authVars, rsvps, questions, jobVars, reqs, hist, answers, rows, moreVars,
                   organizers, sms>>

\* the state create_event leaves: the event without a cover, its staged upload
\* and the queued job; one guest attends
InitImage ==
    /\ now = 0
    /\ users = <<>>
    /\ nextId = 1
    /\ sessions = [s \in Sessions |-> EmptySession]
    /\ issued = [p \in Phones |-> NoIssue]
    /\ codesSent = 0
    /\ last = NoOp
    /\ event = FirstEvent
    /\ rsvps = [u \in People |-> IF u = "alice" THEN "attending" ELSE "none"]
    /\ questions = FALSE
    /\ answers = [u \in People |-> FALSE]
    /\ rows = <<>>
    /\ textBlasts = 0
    /\ invitations = EmptyBag
    /\ eventQuestions = <<>>
    /\ rsvpAnswers = {}
    /\ otherEvents = EmptyBag
    /\ organizers = {}
    /\ files = {1}
    /\ imageJobs = <<NewImageJob(1)>>
    /\ sms = <<>>
    /\ jobs = [j \in Jobs |-> IdleJob]
    /\ beat = FALSE
    /\ reqs = [r \in ReminderReqs |-> NoReq]
    /\ sent = [u \in People |-> [th \in Thresholds |-> 0]]
    /\ hist = NoHist

NextImage ==
    \/ \E i \in ImageJobIds : ImageStart(i)
    \/ \E i \in ImageJobIds, cause \in ImageFailures \cup {"none"} : ImageFinish(i, cause)
    \/ \E r \in ReminderReqs : EditEventLoad(r)
    \/ \E r \in ReminderReqs : EditEventUpload(r)
    \/ \E r \in ReminderReqs : EditEventSave(r, 0, TRUE, TRUE, TRUE, FALSE)
    \/ \E r \in ReminderReqs : SendTextBlastLoad(r)
    \/ \E r \in ReminderReqs : SendTextBlastSave(r)

SpecImage == InitImage /\ [][NextImage]_vars

JobsEnded == \A i \in ImageJobIds : imageJobs[i].pc \in {"success", "failure"}

\* C15 as stated: once the image jobs of the event have reached a terminal
\* outcome (success, or failure with the retries used up), the event's
\* cover_photo_processing_status is not left at 'processing'.
C15_NeverLeftProcessing ==
    (event.exists /\ JobsEnded) => event.cover_photo_processing_status # "processing"

C17_CorruptFileNotRetried ==
    [][\A i \in ImageJobIds :
          (imageJobs[i].pc = "running" /\ imageJobs'[i].pc # "running"
              /\ imageJobs'[i].error = "verify") =>
             /\ event'.cover_photo_processing_status = "failed"
             /\ imageJobs'[i].pc = "failure"]_vars

C37_SaveKeepsJobResult ==
    [][\A r \in ReminderReqs :
          (/\ reqs[r] # NoReq /\ reqs[r].kind = "edit_event" /\ reqs[r].uploaded
           /\ reqs'[r] = NoReq
           /\ Len(imageJobs) = 2 /\ imageJobs[2].pc = "success"
           /\ event.cover_photo_processing_status = "complete"
           /\ event.cover_photo_avif_url = 2)
             => /\ event'.cover_photo_processing_status = "complete"
                /\ event'.cover_photo_avif_url = 2
                /\ event'.cover_photo_webp_url = 2]_vars

(***************************************************************************)
(* A task message of the image job delivered twice (SpecRedeliver)         *)
(***************************************************************************)

\* at most MaxRedeliveries task messages are delivered a second time
MaxRedeliveries == 1

\* the broker delivers the message of an execution that has succeeded once
\* more, with the same arguments
ImageRedeliver(i) ==
    /\ i \in ImageJobIds /\ imageJobs[i].pc = "success"
    /\ Cardinality(hist.redelivered) < MaxRedeliveries
    /\ imageJobs' = [imageJobs EXCEPT ![i].pc = "queued"]
    /\ hist' = [hist EXCEPT !.redelivered = @ \cup {i}]
    /\ last' = NoOp
    /\ UNCHANGED <<now, authVars, event, rsvps, questions, jobVars, reqs, answers, rows,
                   moreVars, organizers, files, sms>>

\* process_uploaded_image from the file check on: os.path.exists decides
\* whether the execution raises FileNotFoundError ("missing") or goes on to
\* the image, where it may fail or complete
ImageExecute(i, cause) ==
    /\ i \in ImageJobIds
    /\ imageJobs[i].file \in files <=> cause # "missing"
    /\ ImageFinish(i, cause)

InitRedeliver ==
    /\ now = 0
    /\ users = <<>>
    /\ nextId = 1
    /\ sessions = [s \in Sessions |-> EmptySession]
    /\ issued = [p \in Phones |-> NoIssue]
    /\ codesSent = 0
    /\ last = NoOp
    /\ event = FirstEvent
    /\ rsvps = [u \in People |-> IF u = "alice" THEN "attending" ELSE "none"]
    /\ questions = FALSE
    /\ answers = [u \in People |-> FALSE]
    /\ rows = <<>>
    /\ textBlasts = 0
    /\ invitations = EmptyBag
    /\ eventQuestions = <<>>
    /\ rsvpAnswers = {}
    /\ otherEvents = EmptyBag
    /\ organizers = {}
    /\ files = {1}
    /\ imageJobs = <<NewImageJob(1)>>
    /\ sms = <<>>
    /\ jobs = [j \in Jobs |-> IdleJob]
    /\ beat = FALSE
    /\ reqs = [r \in ReminderReqs |-> NoReq]
    /\ sent = [u \in People |-> [th \in Thresholds |-> 0]]
    /\ hist = [redelivered |-> {}] @@ NoHist

NextRedeliver ==
    \/ \E i \in ImageJobIds : ImageStart(i)
    \/ \E i \in ImageJobIds, cause \in ImageFailures \cup {"none", "missing"} :
          ImageExecute(i, cause)
    \/ \E i \in ImageJobIds : ImageRedeliver(i)
    \/ \E r \in ReminderReqs : EditEventLoad(r)
    \/ \E r \in ReminderReqs : EditEventUpload(r)
    \/ \E r \in ReminderReqs : EditEventSave(r, 0, TRUE, TRUE, TRUE, FALSE)

SpecRedeliver == InitRedeliver /\ [][NextRedeliver]_vars

\* C36 as stated: an execution of a task message that has already been
\* executed with success leaves the status 'complete' and both URLs set.
C36_SecondExecutionKeepsComplete ==
    [][\A i \in ImageJobIds :
          (i \in hist.redelivered /\ imageJobs[i].pc = "running"
              /\ imageJobs'[i].pc # "running")
             => /\ event'.cover_photo_processing_status = "complete"
                /\ event'.cover_photo_avif_url # 0
                /\ event'.cover_photo_webp_url # 0]_vars

(***************************************************************************)
(* SMS delivery tasks, send_single_sms and send_bulk_sms (SpecSms)         *)
(***************************************************************************)

\* @shared_task(bind=True, max_retries=3) of send_single_sms
SmsMaxRetries == 3

\* the gateway is called at most MaxGatewayCalls times in a behaviour
MaxGatewayCalls == 5

\* the phone_numbers send_bulk_sms is called with
Recipients == <<"alice", "bob", "creator">>

\* a task message of send_single_sms
SmsUnit(to, retries, countdown) == [to |-> to, retries |-> retries, countdown |-> countdown]

\* Task.retry: a message with retries + 1 is published unless that exceeds
\* max_retries; either way an exception is raised to the caller
Retry(queue, unit, countdown) ==
    IF unit.retries + 1 <= SmsMaxRetries
    THEN queue (+) SetToBag({SmsUnit(unit.to, unit.retries + 1, countdown)})
    ELSE queue

\* send_single_sms, the except clause: it also catches what Task.retry raised
\* in the try block
SmsExcept(queue, unit) ==
    IF unit.retries < SmsMaxRetries
    THEN Retry(queue, unit, RetryCountdown(unit.retries))
    ELSE queue

\* mutant: a failure to enqueue ends the loop of send_bulk_sms
EnqueueFailedAborts(bulk) ==
    [bulk EXCEPT !.failed = @ + 1, !.next = Len(Recipients) + 1]

\* send_bulk_sms: delay() raised for the recipient, the failure is counted and
\* the loop goes on
EnqueueFailed(bulk) ==
    [bulk EXCEPT !.failed = @ + 1, !.next = @ + 1]

\* send_bulk_sms, one turn of its loop: send_single_sms.delay for the next
\* recipient, which publishes the unit or raises
BulkEnqueue(published) ==
    /\ sms.bulk.next <= Len(Recipients)
    /\ sms' = IF published
              THEN [sms EXCEPT
                       !.queue = @ (+) SetToBag({SmsUnit(Recipients[sms.bulk.next], 0, 0)}),
                       !.bulk = [@ EXCEPT !.queued = @ + 1, !.next = @ + 1]]
              ELSE [sms EXCEPT !.bulk = EnqueueFailed(@)]
    /\ last' = NoOp
    /\ UNCHANGED <<now, authVars, event, rsvps, questions, jobVars, reqs, hist, answers,
                   rows, moreVars, organizers, files, imageJobs>>

GatewayCalls == sms.calls["alice"] + sms.calls["bob"] + sms.calls["creator"]

\* send_single_sms, one execution of a unit.  The gateway accepts the message
\* ("sent"), or send_event_update returns success = False ("refused") and
\* Task.retry is called in the try block with countdown 60; what it raises is
\* caught by the except clause.
SendSingleSms(unit, outcome) ==
    LET rest == sms.queue (-) SetToBag({unit}) IN
    /\ BagIn(unit, sms.queue)
    /\ GatewayCalls < MaxGatewayCalls
    /\ sms' = [sms EXCEPT
                  !.queue = IF outcome = "sent" THEN rest
                            ELSE SmsExcept(Retry(rest, unit, 60), unit),
                  !.calls[unit.to] = @ + 1,
                  !.results[unit.to] =
                      IF outcome = "sent" THEN @ \cup {"success"}
                      ELSE IF unit.retries < SmsMaxRetries THEN @
                      ELSE @ \cup {"failure"}]
    /\ last' = NoOp
    /\ UNCHANGED <<now, authVars, event, rsvps, questions, jobVars, reqs, hist, answers,
                   rows, moreVars, organizers, files, imageJobs>>

\* send_bulk_sms has been called for the three recipients
InitSms ==
    /\ now = 0
    /\ users = <<>>
    /\ nextId = 1
    /\ sessions = [s \in Sessions |-> EmptySession]
    /\ issued = [p \in Phones |-> NoIssue]
    /\ codesSent = 0
    /\ last = NoOp
    /\ event = WithCover(FirstEvent, 1)
    /\ rsvps = [u \in People |-> "attending"]
    /\ questions = FALSE
    /\ answers = [u \in People |-> FALSE]
    /\ rows = <<>>
    /\ textBlasts = 0
    /\ invitations = EmptyBag
    /\ eventQuestions = <<>>
    /\ rsvpAnswers = {}
    /\ otherEvents = EmptyBag
    /\ organizers = {}
    /\ files = {}
    /\ imageJobs = <<>>
    /\ sms = [queue |-> EmptyBag,
              calls |-> [u \in People |-> 0],
              results |-> [u \in People |-> {}],
              bulk |-> [next |-> 1, queued |-> 0, failed |-> 0]]
    /\ jobs = [j \in Jobs |-> IdleJob]
    /\ beat = FALSE
    /\ reqs = [r \in ReminderReqs |-> NoReq]
    /\ sent = [u \in People |-> [th \in Thresholds |-> 0]]
    /\ hist = NoHist

NextSms ==
    \/ \E published \in BOOLEAN : BulkEnqueue(published)
    \/ \E unit \in BagToSet(sms.queue), outcome \in {"sent", "refused"} :
          SendSingleSms(unit, outcome)

SpecSms == InitSms /\ [][NextSms]_vars

\* C18 as stated: a unit whose gateway call fails every time causes at most 4
\* gateway calls, the first and at most 3 retries.
C18_AtMostFourAttempts ==
    \A u \in People : sms.calls[u] <= 4

\* the units of a recipient that are queued
UnitsOf(queue, u) == [unit \in {x \in BagToSet(queue) : x.to = u} |-> queue[unit]]

\* C19: send_bulk_sms publishes one unit per recipient in turn; a recipient
\* whose unit could not be published is counted as failed and the loop goes on
\* with the next one, so that queued + failed is the number of recipients
\* handled; and an execution of one recipient's unit, whatever its outcome,
\* leaves the queued units, the gateway calls and the results of every other
\* recipient as they were.
C19_BulkIndependent ==
    [][/\ sms.bulk.queued + sms.bulk.failed = sms.bulk.next - 1
       /\ sms.bulk.next <= Len(Recipients) + 1
       /\ sms'.bulk # sms.bulk =>
             /\ sms'.bulk.next = sms.bulk.next + 1
             /\ sms'.bulk.queued + sms'.bulk.failed = sms.bulk.next
             /\ \/ /\ sms'.bulk.queued = sms.bulk.queued + 1
                   /\ sms'.queue = sms.queue (+) SetToBag({SmsUnit(Recipients[sms.bulk.next], 0, 0)})
                \/ /\ sms'.bulk.failed = sms.bulk.failed + 1
                   /\ sms'.queue = sms.queue
       /\ \A u \in People :
             UnitsOf(sms'.queue, u) # UnitsOf(sms.queue, u) /\ sms'.bulk = sms.bulk =>
                \A v \in People \ {u} :
                    /\ UnitsOf(sms'.queue, v) = UnitsOf(sms.queue, v)
                    /\ sms'.calls[v] = sms.calls[v]
                    /\ sms'.results[v] = sms.results[v]]_vars

\* C19 witness: the loop has ended with one recipient that could not be
\* enqueued and two units queued; one unit has failed and has a retry waiting
\* while its sibling has been delivered.
C19_Witness ==
    /\ sms.bulk.next = Len(Recipients) + 1
    /\ sms.bulk.failed = 1 /\ sms.bulk.queued = 2
    /\ \E u, v \in People :
          /\ u # v
          /\ sms.calls[u] >= 2 /\ UnitsOf(sms.queue, u) # EmptyBag
          /\ sms.results[v] = {"success"} /\ sms.calls[v] = 1

(***************************************************************************)
(* Co-organizers, invite_organizer and leave_event (SpecOrganizers)        *)
(***************************************************************************)

\* Event.can_invite_organizer: organizers.count() < 5
OrganizerLimit == 5

\* invitations are accepted at most MaxInvites times in a behaviour
MaxInvites == 6

\* the registered users: the creator and six others
Registered == People \cup {"carol", "dave", "erin", "frank"}

\* the users whose invite_organizer requests run concurrently
Inviters == {"creator", "alice"}

\* mutant: every logged-in user passes for an organizer
IsOrganizerAnyone(ev, orgs, u) == TRUE

\* Event.is_organizer
IsOrganizer(ev, orgs, u) == ev.created_by = u \/ u \in orgs

\* mutant: the creator is counted with the co-organizers
CanInviteOrganizerCountingCreator(orgs) == Cardinality(orgs) + 1 < OrganizerLimit

\* Event.can_invite_organizer
CanInviteOrganizer(orgs) == Cardinality(orgs) < OrganizerLimit

\* invite_organizer up to the form handling: the requester must be an
\* organizer and the event must be able to take another one
InviteOrganizerCheck(by, invitee) ==
    /\ reqs[by] = NoReq
    /\ event.exists /\ event.is_active
    /\ IsOrganizer(event, organizers, by)
    /\ CanInviteOrganizer(organizers)
    /\ BagCardinality(sms.queue) < MaxInvites
    /\ reqs' = [reqs EXCEPT ![by] = [kind |-> "invite_organizer", invitee |-> invitee]]
    /\ last' = NoOp
    /\ UNCHANGED <<now, authVars, event, rsvps, questions, jobVars, hist, extraVars>>

\* invite_organizer, POST, from the lookup of the invitee on: the creator and
\* the present organizers are refused, anyone else is added and notified
InviteOrganizerAdd(by) ==
    LET invitee == reqs[by].invitee IN
    /\ reqs[by] # NoReq /\ reqs[by].kind = "invite_organizer"
    /\ reqs' = [reqs EXCEPT ![by] = NoReq]
    /\ IF event.created_by = invitee \/ invitee \in organizers
       THEN UNCHANGED <<organizers, sms>>
       ELSE /\ organizers' = organizers \cup {invitee}
            /\ sms' = [sms EXCEPT !.queue = @ (+) SetToBag({SmsUnit(invitee, 0, 0)})]
    /\ last' = NoOp
    /\ UNCHANGED <<now, authVars, event, rsvps, questions, jobVars, hist, answers, rows, moreVars,
                   files, imageJobs>>

\* leave_event, POST: a co-organizer leaves; the creator cannot
LeaveEvent(u) ==
    /\ event.exists /\ event.is_active
    /\ event.created_by # u
    /\ u \in organizers
    /\ organizers' = organizers \ {u}
    /\ last' = NoOp
    /\ UNCHANGED <<now, authVars, event, rsvps, questions, jobVars, reqs, hist, answers,
                   rows, moreVars, files, imageJobs, sms>>

\* an event without co-organizers
InitOrganizers ==
    /\ now = 0
    /\ users = <<>>
    /\ nextId = 1
    /\ sessions = [s \in Sessions |-> EmptySession]
    /\ issued = [p \in Phones |-> NoIssue]
    /\ codesSent = 0
    /\ last = NoOp
    /\ event = WithCover(FirstEvent, 1)
    /\ rsvps = [u \in People |-> "none"]
    /\ questions = FALSE
    /\ answers = [u \in People |-> FALSE]
    /\ rows = <<>>
    /\ textBlasts = 0
    /\ invitations = EmptyBag
    /\ eventQuestions = <<>>
    /\ rsvpAnswers = {}
    /\ otherEvents = EmptyBag
    /\ organizers = {}
    /\ files = {}
    /\ imageJobs = <<>>
    /\ sms = [queue |-> EmptyBag,
              calls |-> [u \in People |-> 0],
              results |-> [u \in People |-> {}],
              bulk |-> [next |-> 1, queued |-> 0, failed |-> 0]]
    /\ jobs = [j \in Jobs |-> IdleJob]
    /\ beat = FALSE
    /\ reqs = [r \in Inviters |-> NoReq]
    /\ sent = [u \in People |-> [th \in Thresholds |-> 0]]
    /\ hist = NoHist

NextOrganizers ==
    \/ \E by \in Inviters, invitee \in Registered : InviteOrganizerCheck(by, invitee)
    \/ \E by \in Inviters : InviteOrganizerAdd(by)
    \/ \E u \in Registered : LeaveEvent(u)

SpecOrganizers == InitOrganizers /\ [][NextOrganizers]_vars

\* C20 as stated: the creator and the co-organizers together are never more
\* than 5, after any sequence of invite_organizer and leave_event.
C20_AtMostFiveOrganizers ==
    event.exists => Cardinality(organizers) + 1 <= 5

(***************************************************************************)
(* The text blast limit (SpecBlast)                                        *)
(***************************************************************************)

\* the requests of the organizers that run concurrently
BlastReqs == {"r1", "r2"}

\* an event one blast short of the limit, with one attending guest
InitBlast ==
    /\ now = 0
    /\ users = <<>>
    /\ nextId = 1
    /\ sessions = [s \in Sessions |-> EmptySession]
    /\ issued = [p \in Phones |-> NoIssue]
    /\ codesSent = 0
    /\ last = NoOp
    /\ event = [WithCover(FirstEvent, 1)
                   EXCEPT !.text_blast_count = TextBlastLimit - 1]
    /\ rsvps = [u \in People |-> IF u = "alice" THEN "attending" ELSE "none"]
    /\ questions = FALSE
    /\ answers = [u \in People |-> FALSE]
    /\ rows = <<>>
    /\ textBlasts = TextBlastLimit - 1
    /\ invitations = EmptyBag
    /\ eventQuestions = <<>>
    /\ rsvpAnswers = {}
    /\ otherEvents = EmptyBag
    /\ organizers = {}
    /\ files = {}
    /\ imageJobs = <<>>
    /\ sms = <<>>
    /\ jobs = [j \in Jobs |-> IdleJob]
    /\ beat = FALSE
    /\ reqs = [r \in BlastReqs |-> NoReq]
    /\ sent = [u \in People |-> [th \in Thresholds |-> 0]]
    /\ hist = NoHist

NextBlast ==
    \/ \E r \in BlastReqs : SendTextBlastLoad(r)
    \/ \E r \in BlastReqs : SendTextBlastSave(r)
    \/ \E r \in BlastReqs : EditEventLoad(r)
    \/ \E r \in BlastReqs, max \in MaxAttendeesInputs, allow, maybe \in BOOLEAN :
          EditEventSave(r, max, allow, maybe, TRUE, FALSE)

SpecBlast == InitBlast /\ [][NextBlast]_vars

\* C21 as stated: the event never has more than 20 TextBlast records, under
\* any interleaving of the organizers' send_text_blast requests.
C21_AtMostTwentyBlasts == textBlasts <= 20

(***************************************************************************)
(* Invitations, invite_to_event (SpecInvite)                               *)
(***************************************************************************)

\* "You can send a maximum of 20 invites at once."
InviteListLimit == 20

\* the phone_numbers field after the split: one or two entries
InviteLists == {<<a>> : a \in RawPhones} \cup {<<a, b>> : a, b \in RawPhones}

\* the requests of the organizer that run concurrently
InviteReqs == {"r1", "r2"}

InviteHist == [error |-> FALSE]

\* the loop over phone_list: the entries that normalize to a number without
\* an invitation, in the order of the list
RECURSIVE ValidNumbers(_, _)
ValidNumbers(list, inv) ==
    IF list = <<>> THEN <<>>
    ELSE LET normalized == NormalizePhoneNumber(Head(list)) IN
         IF normalized # None /\ ~BagIn(normalized, inv)
         THEN <<normalized>> \o ValidNumbers(Tail(list), inv)
         ELSE ValidNumbers(Tail(list), inv)

\* unique_together = [("event", "phone_number")]: the INSERT of bulk_create is
\* refused when two of its rows, or one of them and a stored row, have the
\* same number
InvitationConflict(inv, valid) ==
    \/ \E i, j \in 1..Len(valid) : i # j /\ valid[i] = valid[j]
    \/ \E i \in 1..Len(valid) : BagIn(valid[i], inv)

\* the rows of invitations_to_create, one per entry of valid_numbers
RECURSIVE InvitationsToCreate(_)
InvitationsToCreate(valid) ==
    IF valid = <<>> THEN EmptyBag
    ELSE SetToBag({Head(valid)}) (+) InvitationsToCreate(Tail(valid))

InvitationSms(phone) == SmsUnit(phone, 0, 0)

\* send_bulk_sms.delay(valid_numbers, message): one send_single_sms per entry
RECURSIVE InvitationMessages(_)
InvitationMessages(valid) ==
    IF valid = <<>> THEN EmptyBag
    ELSE SetToBag({InvitationSms(Head(valid))}) (+) InvitationMessages(Tail(valid))

\* invite_to_event, POST, up to bulk_create: the list is read and the numbers
\* that are not invited yet are collected
InviteToEventCheck(r, list) ==
    /\ reqs[r] = NoReq
    /\ event.exists /\ event.is_active
    /\ Len(list) <= InviteListLimit
    /\ reqs' = [reqs EXCEPT ![r] =
           [kind |-> "invite_to_event", valid |-> ValidNumbers(list, invitations)]]
    /\ last' = NoOp
    /\ UNCHANGED <<now, authVars, event, rsvps, questions, jobVars, hist, extraVars>>

\* invite_to_event from bulk_create on: the invitations are inserted in one
\* statement, and send_bulk_sms is queued for them; an IntegrityError is not
\* caught and ends the request
InviteToEventCreate(r) ==
    LET valid == reqs[r].valid IN
    /\ reqs[r] # NoReq /\ reqs[r].kind = "invite_to_event"
    /\ reqs' = [reqs EXCEPT ![r] = NoReq]
    /\ IF InvitationConflict(invitations, valid)
       THEN /\ hist' = [hist EXCEPT !.error = TRUE]
            /\ UNCHANGED <<invitations, sms>>
       ELSE /\ invitations' = invitations (+) InvitationsToCreate(valid)
            /\ sms' = [sms EXCEPT !.queue = @ (+) InvitationMessages(valid)]
            /\ hist' = hist
    /\ last' = NoOp
    /\ UNCHANGED <<now, authVars, event, rsvps, questions, jobVars, answers, rows,
                   organizers, files, imageJobs, textBlasts, eventQuestions, rsvpAnswers,
                   otherEvents>>

\* an event without invitations
InitInvite ==
    /\ now = 0
    /\ users = <<>>
    /\ nextId = 1
    /\ sessions = [s \in Sessions |-> EmptySession]
    /\ issued = [p \in Phones |-> NoIssue]
    /\ codesSent = 0
    /\ last = NoOp
    /\ event = WithCover(FirstEvent, 1)
    /\ rsvps = [u \in People |-> "none"]
    /\ questions = FALSE
    /\ answers = [u \in People |-> FALSE]
    /\ rows = <<>>
    /\ textBlasts = 0
    /\ invitations = EmptyBag
    /\ eventQuestions = <<>>
    /\ rsvpAnswers = {}
    /\ otherEvents = EmptyBag
    /\ organizers = {}
    /\ files = {}
    /\ imageJobs = <<>>
    /\ sms = [queue |-> EmptyBag,
              calls |-> [u \in People |-> 0],
              results |-> [u \in People |-> {}],
              bulk |-> [next |-> 1, queued |-> 0, failed |-> 0]]
    /\ jobs = [j \in Jobs |-> IdleJob]
    /\ beat = FALSE
    /\ reqs = [r \in InviteReqs |-> NoReq]
    /\ sent = [u \in People |-> [th \in Thresholds |-> 0]]
    /\ hist = InviteHist

NextInvite ==
    \/ \E r \in InviteReqs, list \in InviteLists : InviteToEventCheck(r, list)
    \/ \E r \in InviteReqs : InviteToEventCreate(r)

SpecInvite == InitInvite /\ [][NextInvite]_vars

\* C22 as stated: the event holds at most one EventInvitation per phone
\* number, no invite_to_event request ends in an error, whether a number is
\* already invited or occurs twice in the submitted list, and every invited
\* number has exactly one invitation SMS queued.
C22_OneInvitationNoError ==
    /\ \A p \in Phones : CopiesIn(p, invitations) <= 1
    /\ ~hist.error
    /\ \A p \in Phones : CopiesIn(InvitationSms(p), sms.queue) = CopiesIn(p, invitations)

(***************************************************************************)
(* Job-level retry of send_event_reminders (SpecRetry)                     *)
(***************************************************************************)

\* @shared_task(bind=True, max_retries=3)
ReminderMaxRetries == 3

\* the task message SpecRetry follows
RetryJobs == {"j1"}

\* an exception outside the per-recipient guards: the evaluation of the
\* events queryset, or what follows the recipient loop (event.save()).  It
\* leaves the try block; `raise self.retry(...)` publishes the task again with
\* retries + 1, or fails the task when the retries are used up
ReminderRaise(j) ==
    /\ \/ jobs[j].pc = "query"
       \/ jobs[j].pc = "loop" /\ jobs[j].todo = {}
    /\ jobs' = [jobs EXCEPT ![j] =
           IF @.retries < ReminderMaxRetries
           THEN [@ EXCEPT !.pc = "retry", !.retries = @ + 1, !.ev = NoEvent, !.todo = {}]
           ELSE IdleJob]
    /\ last' = NoOp
    /\ UNCHANGED <<now, authVars, event, rsvps, beat, reqs, sent, hist, questions, extraVars>>

\* the republished task is executed: the function starts again from its
\* first line, with now = timezone.now()
ReminderRetry(j) ==
    /\ jobs[j].pc = "retry"
    /\ jobs' = [jobs EXCEPT ![j] = [@ EXCEPT !.pc = "query", !.th = "24h", !.at = now]]
    /\ last' = NoOp
    /\ UNCHANGED <<now, authVars, event, rsvps, beat, reqs, sent, hist, questions, extraVars>>

NextRetry ==
    \/ \E j \in RetryJobs : StartReminders(j)
    \/ \E j \in RetryJobs : QueryEvents(j)
    \/ \E j \in RetryJobs, u \in People, success \in BOOLEAN : SendReminder(j, u, success)
    \/ \E j \in RetryJobs : MarkReminderSent(j)
    \/ \E j \in RetryJobs : ReminderRaise(j)
    \/ \E j \in RetryJobs : ReminderRetry(j)
    \/ TickReminder

\* the event of InitReminder; no request is made, one task message at a time
SpecRetry == InitReminder /\ [][NextRetry]_vars

\* an invocation of job j leaves the 24h window by an exception
RaisedIn24h(j) ==
    /\ jobs[j].th = "24h" /\ jobs[j].pc \in {"query", "loop"}
    /\ jobs'[j].pc \in {"retry", "idle"}

\* C24 as stated: when an invocation of send_event_reminders raises while it
\* processes the 24h window, outside the per-recipient guards, the same
\* invocation still goes on to process the 1h window.
C24_OneHourWindowStillProcessed ==
    [][\A j \in RetryJobs :
          RaisedIn24h(j) => jobs'[j].pc = "query" /\ jobs'[j].th = "1h"]_vars

\* C27 as stated: over the first run of send_event_reminders and its
\* job-level retries, every attending RSVP holder is sent the reminder of a
\* threshold at most once, also when the run failed after the reminders of the
\* event were sent and before its flag was saved.
C27_RetrySendsOnce ==
    \A u \in Attending(rsvps), th \in Thresholds : sent[u][th] < 2

(***************************************************************************)
(* Questionnaire answers of one RSVP (SpecAnswers)                         *)
(***************************************************************************)

\* an edit_event form fills at most MaxQuestions of its question slots
MaxQuestions == 2
\* EventQuestion rows are created while their ids stay below MaxQuestionId
MaxQuestionId == 3

\* what a question_<id> field can hold: nothing, blanks, a text
AnswerTexts == {"", " ", "yes"}

\* str.strip()
Strip(text) == IF text = " " THEN "" ELSE text

QuestionIds(qs) == {qs[i].id : i \in 1..Len(qs)}

\* the entries of the question form: the required flag of each filled slot
QuestionEntries == UNION {[1..n -> BOOLEAN] : n \in 0..MaxQuestions}

\* _save_event_questions: the existing questions are rewritten slot by slot,
\* questions are created for the further entries, and the existing questions
\* beyond the entries are deleted
SaveEventQuestions(existing, entries, next) ==
    [i \in 1..Len(entries) |->
        IF i <= Len(existing)
        THEN [id |-> existing[i].id, is_required |-> entries[i]]
        ELSE [id |-> next + (i - Len(existing) - 1), is_required |-> entries[i]]]

\* the answers that are left when the questions outside `ids` are deleted
\* (on_delete=CASCADE)
CascadeAnswers(ans, ids) == {a \in ans : a[1] \in ids}

\* edit_event, submitted with the values the event has and a question form
EditEventQuestions(entries) ==
    LET created == IF Len(entries) > Len(eventQuestions)
                   THEN Len(entries) - Len(eventQuestions) ELSE 0
    IN
    /\ event.exists /\ event.is_active
    /\ nextId + created <= MaxQuestionId + 1
    /\ eventQuestions' = SaveEventQuestions(eventQuestions, entries, nextId)
    /\ nextId' = nextId + created
    /\ rsvpAnswers' = CascadeAnswers(rsvpAnswers, QuestionIds(eventQuestions'))
    /\ last' = NoOp
    /\ UNCHANGED <<now, users, sessions, issued, codesSent, event, rsvps, questions,
                   jobs, beat, reqs, sent, hist, answers, rows, organizers, files, imageJobs, sms,
                   textBlasts, invitations, otherEvents>>

\* mutant: a variant in which no question is ever reported as missing
MissingQuestionsNone(qs, texts) == {}

\* the required questions without an answer in the stripped submission
MissingQuestions(qs, texts) ==
    {i \in 1..Len(qs) : qs[i].is_required /\ Strip(texts[qs[i].id]) = ""}

\* a variant that stores an answer for every question of the event
KeepsAnswerAlways(answer_text, is_required) == TRUE

\* `if answer_text or question.is_required`
KeepsAnswer(answer_text, is_required) == answer_text # "" \/ is_required

\* RSVPAnswer.objects.update_or_create(rsvp, question, defaults={"answer": ...})
UpsertAnswer(ans, q, text) == {a \in ans : a[1] # q} \cup {<<q, text>>}

\* the loop over `questions` that follows the RSVP upsert
RECURSIVE WriteAnswers(_, _, _)
WriteAnswers(ans, qs, texts) ==
    IF qs = <<>> THEN ans
    ELSE LET question == Head(qs)
             answer_text == Strip(texts[question.id])
         IN WriteAnswers(
                IF KeepsAnswer(answer_text, question.is_required)
                THEN UpsertAnswer(ans, question.id, answer_text)
                ELSE {a \in ans : a[1] # question.id},
                Tail(qs), texts)

\* rsvp_event of guest u for an open event without capacity limit: the
\* status and the question_<id> fields are read, the submission is rejected
\* or the RSVP and its answers are written
RsvpEventAnswers(u, status) ==
    \E texts \in [QuestionIds(eventQuestions) -> AnswerTexts] :
    LET rejected == \/ status \notin RsvpStatuses
                    \/ /\ status \in {"attending", "maybe"}
                       /\ MissingQuestions(eventQuestions, texts) # {}
    IN
    /\ event.exists /\ event.is_active /\ event.allow_rsvp /\ event.allow_maybe_rsvp
    /\ event.max_attendees = 0
    /\ last' = [op |-> "rsvp_event", phone |-> u, code |-> status,
                err |-> IF rejected THEN "rejected" ELSE "ok", texts |-> texts]
    /\ IF rejected
       THEN UNCHANGED <<rsvps, rsvpAnswers>>
       ELSE /\ rsvps' = [rsvps EXCEPT ![u] = status]
            /\ rsvpAnswers' =
                   IF status = "not_attending" THEN {}
                   ELSE WriteAnswers(rsvpAnswers, eventQuestions, texts)
    /\ UNCHANGED <<now, users, nextId, sessions, issued, codesSent, event, questions,
                   jobs, beat, reqs, sent, hist, answers, rows, organizers, files, imageJobs, sms,
                   textBlasts, invitations, eventQuestions, otherEvents>>

\* an event without questions; rsvpAnswers are the answers of alice's RSVP
InitAnswers ==
    /\ now = 0
    /\ users = <<>>
    /\ nextId = 1
    /\ sessions = [s \in Sessions |-> EmptySession]
    /\ issued = [p \in Phones |-> NoIssue]
    /\ codesSent = 0
    /\ last = NoOp
    /\ event = WithCover(FirstEvent, 1)
    /\ rsvps = [u \in People |-> "none"]
    /\ questions = FALSE
    /\ answers = <<>>
    /\ rows = <<>>
    /\ textBlasts = 0
    /\ invitations = EmptyBag
    /\ eventQuestions = <<>>
    /\ rsvpAnswers = {}
    /\ otherEvents = EmptyBag
    /\ organizers = {}
    /\ files = {}
    /\ imageJobs = <<>>
    /\ sms = <<>>
    /\ jobs = [j \in Jobs |-> IdleJob]
    /\ beat = FALSE
    /\ reqs = <<>>
    /\ sent = [u \in People |-> [th \in Thresholds |-> 0]]
    /\ hist = NoHist

NextAnswers ==
    \/ \E entries \in QuestionEntries : EditEventQuestions(entries)
    \/ \E status \in SubmittedStatuses : RsvpEventAnswers("alice", status)

SpecAnswers == InitAnswers /\ [][NextAnswers]_vars

\* the number of answers the RSVP holds for question q
AnswersFor(q) == Cardinality({a \in rsvpAnswers : a[1] = q})

\* the required flag of the current question q
IsRequired(q) == \E i \in 1..Len(eventQuestions) :
                     eventQuestions[i].id = q /\ eventQuestions[i].is_required

\* C25: right after an accepted rsvp_event submission with status attending
\* or maybe, the RSVP holds exactly one answer for each current question of
\* the event whose submitted text (blanks stripped) is not empty or that is
\* required, and no answer for any other question; right after an accepted
\* not_attending submission it holds no answer.
C25_AnswersMatchSubmission ==
    last.op = "rsvp_event" /\ last.err = "ok" =>
        IF last.code = "not_attending"
        THEN rsvpAnswers = {}
        ELSE \A q \in 1..MaxQuestionId :
                AnswersFor(q) =
                    IF /\ q \in QuestionIds(eventQuestions)
                       /\ (Strip(last.texts[q]) # "" \/ IsRequired(q))
                    THEN 1 ELSE 0

\* C25 witness: an accepted attending submission that answered one question
\* of the event and left another, optional one empty, whose earlier answer is
\* gone.
C25_Witness ==
    /\ last.op = "rsvp_event" /\ last.err = "ok" /\ last.code = "attending"
    /\ \E q1, q2 \in QuestionIds(eventQuestions) :
          /\ AnswersFor(q1) = 1 /\ Strip(last.texts[q1]) # ""
          /\ AnswersFor(q2) = 0 /\ Strip(last.texts[q2]) = ""

(***************************************************************************)
(* Short codes (SpecShortCode)                                             *)
(***************************************************************************)

\* the create_event requests that run concurrently
CodeReqs == {"r1", "r2"}

\* Event.objects.filter(short_code=code).exists()
ShortCodeExists(code) ==
    \/ event.exists /\ event.short_code = code
    \/ BagIn(code, otherEvents)

\* a database without the unique index on short_code
ShortCodeTakenUnenforced(code) == FALSE

\* unique=True: the INSERT of a row with a short_code another row has is
\* refused
ShortCodeTaken(code) == ShortCodeExists(code)

\* Event.save of a new event, up to super().save(): the loop has drawn a code
\* that no stored event has
CreateEventDraw(r, code) ==
    /\ reqs[r] = NoReq
    /\ ~ShortCodeExists(code)
    /\ reqs' = [reqs EXCEPT ![r] = [kind |-> "create_event", code |-> code]]
    /\ last' = NoOp
    /\ UNCHANGED <<now, authVars, event, rsvps, questions, jobVars, hist, extraVars>>

\* super().save() and the rest of create_event: the row is inserted, or the
\* INSERT is refused (IntegrityError) and the request ends.  The first event
\* that is stored is the event the model follows: its cover upload is staged
\* and its image job queued
CreateEventInsert(r) ==
    LET code == reqs[r].code IN
    /\ reqs[r] # NoReq /\ reqs[r].kind = "create_event"
    /\ reqs' = [reqs EXCEPT ![r] = NoReq]
    /\ IF ShortCodeTaken(code)
       THEN UNCHANGED <<event, otherEvents, files, imageJobs>>
       ELSE IF ~event.exists
       THEN /\ event' = EventSave(NewEvent("creator", EventStart, 0, TRUE, TRUE, TRUE), code)
            /\ LET f == Len(imageJobs) + 1 IN
                  /\ files' = files \cup {f}
                  /\ imageJobs' = Append(imageJobs, NewImageJob(f))
            /\ UNCHANGED otherEvents
       ELSE /\ otherEvents' = otherEvents (+) SetToBag({code})
            /\ UNCHANGED <<event, files, imageJobs>>
    /\ last' = NoOp
    /\ UNCHANGED <<now, authVars, rsvps, questions, jobVars, hist, answers, rows,
                   organizers, sms, textBlasts, invitations, eventQuestions, rsvpAnswers>>

\* no event is stored; alice will attend the first one
InitShortCode ==
    /\ now = 0
    /\ users = <<>>
    /\ nextId = 1
    /\ sessions = [s \in Sessions |-> EmptySession]
    /\ issued = [p \in Phones |-> NoIssue]
    /\ codesSent = 0
    /\ last = NoOp
    /\ event = NoEvent
    /\ rsvps = [u \in People |-> IF u = "alice" THEN "attending" ELSE "none"]
    /\ questions = FALSE
    /\ answers = [u \in People |-> FALSE]
    /\ rows = <<>>
    /\ textBlasts = 0
    /\ invitations = EmptyBag
    /\ eventQuestions = <<>>
    /\ rsvpAnswers = {}
    /\ otherEvents = EmptyBag
    /\ organizers = {}
    /\ files = {}
    /\ imageJobs = <<>>
    /\ sms = <<>>
    /\ jobs = [j \in Jobs |-> IdleJob]
    /\ beat = FALSE
    /\ reqs = [r \in CodeReqs |-> NoReq]
    /\ sent = [u \in People |-> [th \in Thresholds |-> 0]]
    /\ hist = NoHist

NextShortCode ==
    \/ \E r \in CodeReqs, code \in ShortCodes : CreateEventDraw(r, code)
    \/ \E r \in CodeReqs : CreateEventInsert(r)
    \/ \E r \in ReminderReqs : EditEventLoad(r)
    \/ \E r \in ReminderReqs : EditEventSave(r, 0, TRUE, TRUE, TRUE, FALSE)
    \/ \E r \in ReminderReqs : SendTextBlastLoad(r)
    \/ \E r \in ReminderReqs : SendTextBlastSave(r)
    \/ \E j \in RetryJobs : StartReminders(j)
    \/ \E j \in RetryJobs : QueryEvents(j)
    \/ \E j \in RetryJobs, u \in People : SendReminder(j, u, TRUE)
    \/ \E j \in RetryJobs : MarkReminderSent(j)
    \/ \E i \in ImageJobIds : ImageStart(i)
    \/ \E i \in ImageJobIds, cause \in {"none", "storage"} : ImageFinish(i, cause)

SpecShortCode == InitShortCode /\ [][NextShortCode]_vars

\* every stored event has a short_code, and no two stored events have the
\* same one
ShortCodesDistinct ==
    /\ event.exists => event.short_code \in ShortCodes /\ ~BagIn(event.short_code, otherEvents)
    /\ \A code \in BagToSet(otherEvents) : code \in ShortCodes /\ CopiesIn(code, otherEvents) = 1

\* C26: the short_code of an event is set when the event is first saved,
\* differs from the short_code of every other event, and is left unchanged by
\* every later step of edit_event, send_text_blast, the reminder job and the
\* image job.
C26_ShortCodeUniqueImmutable ==
    [][/\ ShortCodesDistinct'
       /\ event.exists => event'.exists /\ event'.short_code = event.short_code]_vars

\* C26 witness: the event and another event are stored, and the event has
\* been edited, has had a text blast and a 24h reminder run, and its cover
\* has been processed.
C26_Witness ==
    /\ event.exists /\ otherEvents # EmptyBag
    /\ hist.edits > 0 /\ reqs["r1"] = NoReq
    /\ event.text_blast_count > 0
    /\ event.reminder_24h_sent
    /\ event.cover_photo_processing_status = "complete"

(***************************************************************************)
(* The beat schedule of send_event_reminders (SpecSchedule)                *)
(***************************************************************************)

\* the beats of SpecSchedule end MaxBeatsAfter beats after the latest start
MaxBeatsAfter == 1

\* event_state_date of the event of SpecSchedule: more than 24.5 hours after
\* the first beat, on a beat, a quarter of an hour after one, or on the next
ScheduleStarts == {Window24To + k : k \in 1..3}

LastBeat == Window24To + 3 + MaxBeatsAfter * BeatPeriod

\* half an hour passes: the run of this beat has completed and the schedule
\* fires the next one
TickSchedule ==
    /\ beat
    /\ \A j \in RetryJobs : jobs[j].pc = "idle"
    /\ now + BeatPeriod <= LastBeat
    /\ now' = now + BeatPeriod
    /\ beat' = FALSE
    /\ last' = NoOp
    /\ UNCHANGED <<authVars, event, rsvps, jobs, reqs, sent, hist, questions, extraVars>>

\* an active event with auto-reminders, created before the first beat, with
\* one attending guest
InitSchedule ==
    /\ now = 0
    /\ users = <<>>
    /\ nextId = 1
    /\ sessions = [s \in Sessions |-> EmptySession]
    /\ issued = [p \in Phones |-> NoIssue]
    /\ codesSent = 0
    /\ last = NoOp
    /\ \E start \in ScheduleStarts :
          event = WithCover(EventSave(NewEvent("creator", start, 0, TRUE, TRUE, TRUE),
                                      FirstCode), 1)
    /\ rsvps = [u \in People |-> IF u = "alice" THEN "attending" ELSE "none"]
    /\ questions = FALSE
    /\ answers = <<>>
    /\ rows = <<>>
    /\ textBlasts = 0
    /\ invitations = EmptyBag
    /\ eventQuestions = <<>>
    /\ rsvpAnswers = {}
    /\ otherEvents = EmptyBag
    /\ organizers = {}
    /\ files = {}
    /\ imageJobs = <<>>
    /\ sms = <<>>
    /\ jobs = [j \in Jobs |-> IdleJob]
    /\ beat = FALSE
    /\ reqs = <<>>
    /\ sent = [u \in People |-> [th \in Thresholds |-> 0]]
    /\ hist = NoHist

RunReminders ==
    \/ \E j \in RetryJobs : StartReminders(j)
    \/ \E j \in RetryJobs : QueryEvents(j)
    \/ \E j \in RetryJobs, u \in People, success \in BOOLEAN : SendReminder(j, u, success)
    \/ \E j \in RetryJobs : MarkReminderSent(j)

NextSchedule ==
    \/ RunReminders
    \/ TickSchedule

\* the schedule fires every half hour and every run completes
SpecSchedule ==
    /\ InitSchedule
    /\ [][NextSchedule]_vars
    /\ WF_vars(RunReminders)
    /\ WF_vars(TickSchedule)

\* a run has selected the event for threshold th
Selected(th) == \E j \in RetryJobs : jobs[j].pc = "loop" /\ jobs[j].th = th

\* C28: when the job fires every 30 minutes and each run completes, an active
\* event with auto-reminders enabled that exists, with unchanged start time,
\* from more than 24.5 hours before its start is selected by some run for the
\* 24h reminder and by some run for the 1h reminder.
C28_EveryEventSelected == <>Selected("24h") /\ <>Selected("1h")

\* C28 witness: an event that starts a quarter of an hour off the beats has
\* had its 24h reminder and is selected for the 1h reminder.
C28_Witness ==
    /\ event.event_state_date % BeatPeriod # 0
    /\ event.reminder_24h_sent
    /\ Selected("1h")

(***************************************************************************)
(* The resend cooldown below one second (SpecCooldown)                     *)
(***************************************************************************)

\* SpecCooldown counts time in ticks, SubSecond of them in a second
SubSecond == 2
\* the clock of SpecCooldown stops MaxTicksAfter ticks after the cooldown
MaxTicksAfter == 2

\* timedelta(minutes=1), in ticks
CooldownTicks == CooldownMinutes * 60 * SubSecond

\* int(timedelta.total_seconds()): the whole seconds of a span of ticks,
\* truncated towards zero
TotalSecondsInt(ticks) ==
    IF ticks >= 0 THEN ticks \div SubSecond ELSE 0 - ((0 - ticks) \div SubSecond)

\* User.can_resend_code at tick t
CanResendCodeAt(u, t) ==
    IF u.verification_code_sent_at = NoTime
    THEN TRUE
    ELSE t > u.verification_code_sent_at + CooldownTicks

\* User.get_resend_cooldown_seconds at tick t
GetResendCooldownSeconds(u, t) ==
    IF u.verification_code_sent_at = NoTime
    THEN 0
    ELSE LET remaining == TotalSecondsInt(u.verification_code_sent_at + CooldownTicks - t)
         IN IF remaining > 0 THEN remaining ELSE 0

\* phone_login, POST with the number of the one user: refused with the
\* seconds to wait while the cooldown runs, a new code otherwise
PhoneLoginCooldown(phone) ==
    LET ids == UserByPhone(users, phone)
        i == CHOOSE j \in ids : TRUE
    IN
    /\ ids # {}
    /\ IF ~CanResendCodeAt(users[i], now)
       THEN /\ last' = [op |-> "phone_login", phone |-> phone, code |-> "",
                        err |-> "refused",
                        seconds |-> GetResendCooldownSeconds(users[i], now)]
            /\ users' = users
       ELSE /\ users' = [users EXCEPT ![i] = GenerateVerificationCode(@, "000001", now)]
            /\ last' = NoOp
    /\ UNCHANGED <<now, nextId, sessions, issued, codesSent, eventVars>>

\* one tick passes
TickCooldown ==
    /\ now < CooldownTicks + MaxTicksAfter
    /\ now' = now + 1
    /\ last' = NoOp
    /\ UNCHANGED <<authVars, eventVars>>

\* one user who has never been sent a code
InitCooldown ==
    /\ now = 0
    /\ users = <<NewUser("+15550001")>>
    /\ nextId = 2
    /\ sessions = [s \in Sessions |-> EmptySession]
    /\ issued = [p \in Phones |-> NoIssue]
    /\ codesSent = 0
    /\ last = NoOp
    /\ event = NoEvent
    /\ rsvps = <<>>
    /\ questions = FALSE
    /\ answers = <<>>
    /\ rows = <<>>
    /\ textBlasts = 0
    /\ invitations = EmptyBag
    /\ eventQuestions = <<>>
    /\ rsvpAnswers = {}
    /\ otherEvents = EmptyBag
    /\ organizers = {}
    /\ files = {}
    /\ imageJobs = <<>>
    /\ sms = <<>>
    /\ jobs = <<>>
    /\ beat = FALSE
    /\ reqs = <<>>
    /\ sent = <<>>
    /\ hist = <<>>

NextCooldown ==
    \/ \E phone \in Phones : PhoneLoginCooldown(phone)
    \/ TickCooldown

SpecCooldown == InitCooldown /\ [][NextCooldown]_vars

\* C32 as stated: at every time and for every user, can_resend_code is false
\* exactly when get_resend_cooldown_seconds is greater than 0, so that a
\* refused request is never told to wait 0 seconds.
C32_CooldownAgrees ==
    /\ \A i \in DOMAIN users :
          ~CanResendCodeAt(users[i], now) <=> GetResendCooldownSeconds(users[i], now) > 0
    /\ last.op = "phone_login" /\ last.err = "refused" => last.seconds > 0

(***************************************************************************)
(* rsvp_event with its confirmation SMS (SpecConfirm)                      *)
(***************************************************************************)

\* at most MaxSubmissions rsvp_event requests are made in a behaviour
MaxSubmissions == 2

\* at most MaxConfirmCalls executions of the confirmation task are followed
MaxConfirmCalls == 2

\* the users who submit: a guest and the creator
Submitters == {"alice", "creator"}

\* a variant that queues no confirmation
ConfirmationUnitsNone(u) == EmptyBag

\* send_single_sms.delay(user_phone, message): the task message of the
\* confirmation
ConfirmationUnits(u) == SetToBag({SmsUnit(u, 0, 0)})

\* the checks of rsvp_event between the status and update_or_create, in the
\* order of the code: the reason of the rejection, or None
SubmissionRejection(ev, qs, rs, u, status, texts) ==
    IF status \notin RsvpStatuses THEN "invalid_status"
    ELSE IF ClosedRsvps(ev, rs, u, status) THEN "closed"
    ELSE IF status = "maybe" /\ ~ev.allow_maybe_rsvp THEN "no_maybe"
    ELSE IF RequiresAnswers(status) /\ qs # <<>> /\ MissingQuestions(qs, texts) # {}
    THEN "missing_answers"
    ELSE IF status = "attending" /\ IsFull(ev, rs) /\ rs[u] # "attending" THEN "full"
    ELSE None

\* rsvp_event up to the confirmation: the creator is answered without any
\* check (an HX request builds the event user state), a rejected submission
\* is answered with its error, an accepted one saves the RSVP and its answers
RsvpEventSave(u, status, hx) ==
    \E texts \in [QuestionIds(eventQuestions) -> AnswerTexts] :
    LET err == SubmissionRejection(event, eventQuestions, rsvps, u, status, texts) IN
    /\ event.exists /\ event.is_active
    /\ reqs[u] = NoReq
    /\ hist.submissions < MaxSubmissions
    /\ hist' = [hist EXCEPT !.submissions = @ + 1]
    /\ IF u = event.created_by
       THEN /\ rsvps' = IF hx THEN BuildEventUserState(event, rsvps, u) ELSE rsvps
            /\ UNCHANGED <<rsvpAnswers, reqs>>
            /\ last' = [op |-> "rsvp_event", phone |-> u, code |-> status,
                        err |-> "creator", texts |-> texts]
       ELSE IF err # None
       THEN /\ UNCHANGED <<rsvps, rsvpAnswers, reqs>>
            /\ last' = [op |-> "rsvp_event", phone |-> u, code |-> status,
                        err |-> err, texts |-> texts]
       ELSE /\ rsvps' = [rsvps EXCEPT ![u] = status]
            /\ rsvpAnswers' = IF status = "not_attending" THEN {}
                              ELSE WriteAnswers(rsvpAnswers, eventQuestions, texts)
            /\ reqs' = [reqs EXCEPT ![u] = [kind |-> "rsvp_saved", status |-> status]]
            /\ last' = [op |-> "rsvp_event", phone |-> u, code |-> status,
                        err |-> "ok", texts |-> texts]
    /\ UNCHANGED <<now, authVars, event, questions, jobVars, answers, rows, organizers,
                   files, imageJobs, sms, textBlasts, invitations, eventQuestions,
                   otherEvents>>

\* the rest of rsvp_event: send_single_sms.delay publishes the confirmation,
\* or raises and the request ends with that exception
RsvpEventEnqueue(u, published) ==
    /\ reqs[u] # NoReq /\ reqs[u].kind = "rsvp_saved"
    /\ reqs' = [reqs EXCEPT ![u] = NoReq]
    /\ sms' = IF published
              THEN [sms EXCEPT !.queue = @ (+) ConfirmationUnits(u)]
              ELSE sms
    /\ last' = [op |-> "delay", phone |-> u, code |-> "",
                err |-> IF published THEN "ok" ELSE "raised"]
    /\ UNCHANGED <<now, authVars, event, rsvps, questions, jobVars, hist, answers, rows,
                   organizers, files, imageJobs, moreVars>>

\* an event with a required and an optional question and one attending
\* guest, open or closed, with or without 'maybe', without limit or full
InitConfirm ==
    /\ now = 0
    /\ users = <<>>
    /\ nextId = 3
    /\ sessions = [s \in Sessions |-> EmptySession]
    /\ issued = [p \in Phones |-> NoIssue]
    /\ codesSent = 0
    /\ last = NoOp
    /\ \E max \in {0, 1}, allow, maybe \in BOOLEAN :
          event = WithCover(EventSave(NewEvent("creator", EventStart, max, allow,
                                               allow /\ maybe, TRUE), FirstCode), 1)
    /\ rsvps = [u \in People |-> IF u = "bob" THEN "attending" ELSE "none"]
    /\ questions = TRUE
    /\ answers = <<>>
    /\ rows = <<>>
    /\ textBlasts = 0
    /\ invitations = EmptyBag
    /\ eventQuestions = <<[id |-> 1, is_required |-> TRUE], [id |-> 2, is_required |-> FALSE]>>
    /\ rsvpAnswers = {}
    /\ otherEvents = EmptyBag
    /\ organizers = {}
    /\ files = {}
    /\ imageJobs = <<>>
    /\ sms = [queue |-> EmptyBag,
              calls |-> [u \in People |-> 0],
              results |-> [u \in People |-> {}],
              bulk |-> [next |-> 1, queued |-> 0, failed |-> 0]]
    /\ jobs = [j \in Jobs |-> IdleJob]
    /\ beat = FALSE
    /\ reqs = [u \in Submitters |-> NoReq]
    /\ sent = [u \in People |-> [th \in Thresholds |-> 0]]
    /\ hist = [submissions |-> 0]

\* one execution of the confirmation task by a worker
SendConfirmation(unit, outcome) ==
    /\ GatewayCalls < MaxConfirmCalls
    /\ SendSingleSms(unit, outcome)

NextConfirm ==
    \/ \E u \in Submitters, status \in SubmittedStatuses, hx \in BOOLEAN :
          RsvpEventSave(u, status, hx)
    \/ \E u \in Submitters, published \in BOOLEAN : RsvpEventEnqueue(u, published)
    \/ \E unit \in BagToSet(sms.queue), outcome \in {"sent", "refused"} :
          SendConfirmation(unit, outcome)

SpecConfirm == InitConfirm /\ [][NextConfirm]_vars

\* a step that is a rsvp_event request of a user who is not the creator
GuestSubmits ==
    /\ hist'.submissions = hist.submissions + 1
    /\ last'.op = "rsvp_event"
    /\ last'.phone # event.created_by

\* the submission of that step must be rejected: its status is not one of
\* the three, RSVPs are closed and it is not the withdrawal of an existing
\* RSVP, 'maybe' is not allowed, a required question has no answer left after
\* strip, or the event is full for a newcomer
MustBeRejected ==
    LET u == last'.phone
        status == last'.code
        texts == last'.texts
        attending == Cardinality({v \in People : rsvps[v] = "attending"})
    IN
    \/ status \notin {"attending", "maybe", "not_attending"}
    \/ ~event.allow_rsvp /\ ~(status = "not_attending" /\ rsvps[u] # "none")
    \/ status = "maybe" /\ ~event.allow_maybe_rsvp
    \/ /\ status \in {"attending", "maybe"}
       /\ \E i \in DOMAIN eventQuestions :
             /\ eventQuestions[i].is_required
             /\ texts[eventQuestions[i].id] \in {"", " "}
    \/ /\ status = "attending"
       /\ event.max_attendees > 0
       /\ attending >= event.max_attendees
       /\ rsvps[u] # "attending"

\* C33: a rsvp_event submission that is rejected (invalid status, closed
\* RSVPs, 'maybe' not allowed, a required answer missing, event full) leaves
\* the RSVP rows and the answers as they were and queues no confirmation SMS,
\* neither in that step nor in a later step of the same request.
C33_RejectedChangesNothing ==
    [][GuestSubmits /\ MustBeRejected
          => /\ rsvps' = rsvps
             /\ rsvpAnswers' = rsvpAnswers
             /\ sms' = sms
             /\ reqs' = reqs
             /\ last'.err \notin {"ok", "creator"}]_vars

\* a guest with a saved 'maybe' and saved answers was refused 'attending'
\* because the event is full
C33_Witness ==
    /\ last.op = "rsvp_event" /\ last.err = "full" /\ last.phone = "alice"
    /\ rsvps["alice"] = "maybe"
    /\ rsvpAnswers # {}
    /\ reqs["alice"] = NoReq

\* C34: an accepted submission of a guest saves the RSVP and the answers and
\* leaves the confirmation to be queued; the confirmation is queued once, as
\* one task message to the guest, with the RSVP already saved; a failure to
\* queue it, and every delivery attempt, leaves RSVP and answers in place.
C34_ConfirmationAfterSave ==
    [][/\ GuestSubmits /\ ~MustBeRejected
          => /\ last'.err = "ok"
             /\ rsvps'[last'.phone] = last'.code
             /\ reqs'[last'.phone] = [kind |-> "rsvp_saved", status |-> last'.code]
             /\ sms' = sms
       /\ \A u \in Submitters :
             reqs[u] # NoReq /\ reqs'[u] = NoReq
                => /\ rsvps[u] = reqs[u].status
                   /\ rsvps' = rsvps /\ rsvpAnswers' = rsvpAnswers
                   /\ \/ sms' = sms /\ last'.err = "raised"
                      \/ /\ last'.err = "ok"
                         /\ sms'.queue = sms.queue (+) SetToBag({SmsUnit(u, 0, 0)})
                         /\ [sms' EXCEPT !.queue = sms.queue] = sms
       /\ sms'.queue # sms.queue => rsvps' = rsvps /\ rsvpAnswers' = rsvpAnswers
       /\ sms'.calls # sms.calls => rsvps' = rsvps /\ rsvpAnswers' = rsvpAnswers]_vars

\* the confirmation of an accepted 'attending' with answers was queued and
\* its delivery was refused by the gateway, and the RSVP and answers are there
C34_Witness ==
    /\ rsvps["alice"] = "attending"
    /\ rsvpAnswers # {}
    /\ reqs["alice"] = NoReq
    /\ sms.calls["alice"] > 0
    /\ sms.results["alice"] = {}
    /\ sms.queue # EmptyBag

\* the confirmation could not be queued and the saved RSVP is in place
C34_WitnessNotQueued ==
    /\ last.op = "delay" /\ last.err = "raised"
    /\ rsvps["alice"] = "maybe"
    /\ sms.queue = EmptyBag

(***************************************************************************)
(* Who may act on an event (SpecPermission)                                *)
(***************************************************************************)

\* the logged-in users who send requests: the creator, a guest who is or
\* becomes a co-organizer, and a guest
Actors == People

\* what a request of the organizer views answers: its view, the acting user,
\* the outcome and the RSVP rows it has rendered
Answer(op, u, err, shown) == [op |-> op, phone |-> u, code |-> "", err |-> err, shown |-> shown]

\* the RSVP rows attendee_list and download_attendee_list render
AttendeeRows(rs) == {<<u, rs[u]>> : u \in {v \in People : rs[v] # "none"}}

\* edit_event, a valid POST without a file: organizers only
EditEventBy(u, allow) ==
    /\ event.exists /\ event.is_active
    /\ IF ~IsOrganizer(event, organizers, u)
       THEN /\ last' = Answer("edit_event", u, "forbidden", {})
            /\ UNCHANGED event
       ELSE /\ event' = EditedEvent(event, event.max_attendees, allow,
                                    event.allow_maybe_rsvp, event.auto_reminders_enabled)
            /\ last' = Answer("edit_event", u, "ok", {})
    /\ UNCHANGED <<now, authVars, rsvps, questions, jobVars, reqs, hist, extraVars>>

\* send_text_blast, POST with a message to the attending guests: organizers
\* only, below the limit and with a recipient
SendTextBlastBy(u) ==
    /\ event.exists /\ event.is_active
    /\ IF ~IsOrganizer(event, organizers, u)
       THEN /\ last' = Answer("send_text_blast", u, "forbidden", {})
            /\ UNCHANGED <<event, textBlasts>>
       ELSE IF event.text_blast_count >= TextBlastLimit
       THEN /\ last' = Answer("send_text_blast", u, "limit", {})
            /\ UNCHANGED <<event, textBlasts>>
       ELSE IF Attending(rsvps) = {}
       THEN /\ last' = Answer("send_text_blast", u, "no_recipients", {})
            /\ UNCHANGED <<event, textBlasts>>
       ELSE /\ textBlasts' = textBlasts + 1
            /\ event' = [event EXCEPT !.text_blast_count = @ + 1]
            /\ last' = Answer("send_text_blast", u, "ok", {})
    /\ UNCHANGED <<now, authVars, rsvps, questions, jobVars, reqs, hist, answers, rows,
                   organizers, files, imageJobs, sms, invitations, eventQuestions,
                   rsvpAnswers, otherEvents>>

\* invite_organizer, POST with the number of a registered user: organizers
\* only, below the limit; the creator and the present organizers are refused
InviteOrganizerBy(u, invitee) ==
    /\ event.exists /\ event.is_active
    /\ BagCardinality(sms.queue) < MaxInvites
    /\ IF ~IsOrganizer(event, organizers, u)
       THEN /\ last' = Answer("invite_organizer", u, "forbidden", {})
            /\ UNCHANGED <<organizers, sms>>
       ELSE IF ~CanInviteOrganizer(organizers)
       THEN /\ last' = Answer("invite_organizer", u, "limit", {})
            /\ UNCHANGED <<organizers, sms>>
       ELSE IF event.created_by = invitee \/ invitee \in organizers
       THEN /\ last' = Answer("invite_organizer", u, "already", {})
            /\ UNCHANGED <<organizers, sms>>
       ELSE /\ organizers' = organizers \cup {invitee}
            /\ sms' = [sms EXCEPT !.queue = @ (+) SetToBag({SmsUnit(invitee, 0, 0)})]
            /\ last' = Answer("invite_organizer", u, "ok", {})
    /\ UNCHANGED <<now, authVars, event, rsvps, questions, jobVars, reqs, hist, answers,
                   rows, moreVars, files, imageJobs>>

\* attendee_list and download_attendee_list: organizers only
AttendeeList(u) ==
    /\ event.exists /\ event.is_active
    /\ last' = IF IsOrganizer(event, organizers, u)
               THEN Answer("attendee_list", u, "ok", AttendeeRows(rsvps))
               ELSE Answer("attendee_list", u, "forbidden", {})
    /\ UNCHANGED <<now, authVars, eventVars>>

\* leave_event, POST: the creator is refused, and so is a user who is not a
\* co-organizer
LeaveEventBy(u) ==
    /\ event.exists /\ event.is_active
    /\ IF event.created_by = u
       THEN /\ last' = Answer("leave_event", u, "creator", {})
            /\ UNCHANGED organizers
       ELSE IF u \notin organizers
       THEN /\ last' = Answer("leave_event", u, "not_organizer", {})
            /\ UNCHANGED organizers
       ELSE /\ organizers' = organizers \ {u}
            /\ last' = Answer("leave_event", u, "ok", {})
    /\ UNCHANGED <<now, authVars, event, rsvps, questions, jobVars, reqs, hist, answers,
                   rows, moreVars, files, imageJobs, sms>>

\* delete_event, POST: the creator only; the rows that refer to the event go
\* with it
DeleteEventBy(u) ==
    /\ event.exists
    /\ IF event.created_by # u
       THEN /\ last' = Answer("delete_event", u, "forbidden", {})
            /\ UNCHANGED <<event, rsvps, organizers, textBlasts>>
       ELSE /\ event' = NoEvent
            /\ rsvps' = [v \in People |-> "none"]
            /\ organizers' = {}
            /\ textBlasts' = 0
            /\ last' = Answer("delete_event", u, "ok", {})
    /\ UNCHANGED <<now, authVars, questions, jobVars, reqs, hist, answers, rows, files,
                   imageJobs, sms, invitations, eventQuestions, rsvpAnswers, otherEvents>>

\* an event of the creator with two guests, without co-organizer or with one
InitPermission ==
    /\ now = 0
    /\ users = <<>>
    /\ nextId = 1
    /\ sessions = [s \in Sessions |-> EmptySession]
    /\ issued = [p \in Phones |-> NoIssue]
    /\ codesSent = 0
    /\ last = NoOp
    /\ event = WithCover(FirstEvent, 1)
    /\ rsvps = [u \in People |-> IF u = "creator" THEN "none" ELSE "attending"]
    /\ questions = FALSE
    /\ answers = [u \in People |-> FALSE]
    /\ rows = <<>>
    /\ textBlasts = 0
    /\ invitations = EmptyBag
    /\ eventQuestions = <<>>
    /\ rsvpAnswers = {}
    /\ otherEvents = EmptyBag
    /\ organizers \in {{}, {"alice"}}
    /\ files = {}
    /\ imageJobs = <<>>
    /\ sms = [queue |-> EmptyBag,
              calls |-> [u \in People |-> 0],
              results |-> [u \in People |-> {}],
              bulk |-> [next |-> 1, queued |-> 0, failed |-> 0]]
    /\ jobs = [j \in Jobs |-> IdleJob]
    /\ beat = FALSE
    /\ reqs = [r \in Inviters |-> NoReq]
    /\ sent = [u \in People |-> [th \in Thresholds |-> 0]]
    /\ hist = NoHist

NextPermission ==
    \/ \E u \in Actors, allow \in BOOLEAN : EditEventBy(u, allow)
    \/ \E u \in Actors : SendTextBlastBy(u)
    \/ \E u \in Actors, invitee \in People : InviteOrganizerBy(u, invitee)
    \/ \E u \in Actors : AttendeeList(u)
    \/ \E u \in Actors : LeaveEventBy(u)
    \/ \E u \in Actors : DeleteEventBy(u)

SpecPermission == InitPermission /\ [][NextPermission]_vars

\* the user of the request of this step is neither the creator nor one of the
\* co-organizers of the event
ActsAsOutsider ==
    /\ last'.phone # event.created_by
    /\ last'.phone \notin organizers

\* C38: edit_event, send_text_blast, invite_organizer and the attendee list
\* change or show something of the event only for the creator and the
\* co-organizers; delete_event deletes only for the creator; leave_event
\* leaves the creator in charge; and the creator is never one of the
\* co-organizers.
C38_OrganizersOnly ==
    [][/\ (last'.op \in {"edit_event", "send_text_blast", "invite_organizer",
                          "attendee_list"} /\ ActsAsOutsider)
          => /\ event' = event /\ textBlasts' = textBlasts
             /\ organizers' = organizers /\ sms' = sms /\ rsvps' = rsvps
             /\ last'.shown = {}
       /\ (event' # event \/ textBlasts' # textBlasts \/ last'.shown # {}
             \/ organizers' \ organizers # {})
          => (last'.phone = event.created_by \/ last'.phone \in organizers)
       /\ ~event'.exists => last'.op = "delete_event" /\ last'.phone = event.created_by
       /\ (last'.op = "delete_event" /\ last'.phone # event.created_by) => event' = event
       /\ last'.op = "leave_event"
          => /\ event' = event
             /\ organizers' \in {organizers, organizers \ {last'.phone}}
             /\ last'.phone = event.created_by => organizers' = organizers
       /\ event'.exists => event'.created_by \notin organizers']_vars

\* C38 witness: alice, who has left the organizers, is refused the attendee
\* list, after an organizer has closed the RSVPs and sent a text blast and
\* bob has been made co-organizer
C38_Witness ==
    /\ last.op = "attendee_list" /\ last.err = "forbidden" /\ last.phone = "alice"
    /\ last.shown = {}
    /\ event.exists /\ event.created_by = "creator" /\ ~event.allow_rsvp
    /\ textBlasts = 1
    /\ organizers = {"bob"}

(***************************************************************************)
(* The questions of an event and the answers to them (SpecQuestions)       *)
(***************************************************************************)

\* QUESTION_SLOTS, the number of question fields of the event form
QuestionSlots == 5

\* at most MaxQuestionRows EventQuestion rows are created in a behaviour
MaxQuestionRows == 5

\* the texts typed into the question fields; "" is an empty field
QuestionTexts == {"Diet?", "Song?"}

\* the question fields of a submitted form, question_text_1 .. _5
QuestionForms == [1..QuestionSlots -> QuestionTexts \cup {""}]

\* _extract_question_entries: the filled fields, in the order of the form
RECURSIVE ExtractQuestionEntries(_, _)
ExtractQuestionEntries(form, index) ==
    IF index > QuestionSlots THEN <<>>
    ELSE IF form[index] # ""
    THEN <<[text |-> form[index], required |-> FALSE]>>
            \o ExtractQuestionEntries(form, index + 1)
    ELSE ExtractQuestionEntries(form, index + 1)

\* _save_event_questions on rows with their text and order: the existing
\* rows, read by (order, id), are rewritten in place entry by entry, rows are
\* created for the further entries and the existing rows beyond the entries
\* are deleted
SaveQuestionRows(existing, entries, next) ==
    [i \in 1..Len(entries) |->
        [id |-> IF i <= Len(existing) THEN existing[i].id
                ELSE next + (i - Len(existing) - 1),
         text |-> entries[i].text,
         is_required |-> entries[i].required,
         order |-> i - 1]]

\* edit_event, submitted with the values the event has and a question form
EditEventForm(form) ==
    LET entries == ExtractQuestionEntries(form, 1)
        created == IF Len(entries) > Len(eventQuestions)
                   THEN Len(entries) - Len(eventQuestions) ELSE 0
    IN
    /\ event.exists /\ event.is_active
    /\ nextId + created <= MaxQuestionRows + 1
    /\ eventQuestions' = SaveQuestionRows(eventQuestions, entries, nextId)
    /\ nextId' = nextId + created
    /\ rsvpAnswers' = {a \in rsvpAnswers : a.question \in QuestionIds(eventQuestions')}
    /\ last' = [op |-> "edit_event", phone |-> event.created_by, code |-> "", err |-> "ok"]
    /\ UNCHANGED <<now, users, sessions, issued, codesSent, event, rsvps, questions,
                   jobs, beat, reqs, sent, hist, answers, rows, organizers, files, imageJobs,
                   sms, textBlasts, invitations, otherEvents>>

\* rsvp_event of guest u, attending, with every question answered.  The text
\* typed as the answer to a question is written as the text of the question
\* it answers; it is stored with update_or_create under the question's id
RsvpEventAnswerAll(u) ==
    /\ event.exists /\ event.is_active /\ event.allow_rsvp
    /\ eventQuestions # <<>>
    /\ rsvps' = [rsvps EXCEPT ![u] = "attending"]
    /\ rsvpAnswers' = {[question |-> eventQuestions[i].id, answer |-> eventQuestions[i].text] :
                          i \in 1..Len(eventQuestions)}
    /\ last' = [op |-> "rsvp_event", phone |-> u, code |-> "attending", err |-> "ok"]
    /\ UNCHANGED <<now, users, nextId, sessions, issued, codesSent, event, questions,
                   jobs, beat, reqs, sent, hist, answers, rows, organizers, files, imageJobs,
                   sms, textBlasts, invitations, eventQuestions, otherEvents>>

\* an event without questions; rsvpAnswers are the answers of alice's RSVP
InitQuestions ==
    /\ now = 0
    /\ users = <<>>
    /\ nextId = 1
    /\ sessions = [s \in Sessions |-> EmptySession]
    /\ issued = [p \in Phones |-> NoIssue]
    /\ codesSent = 0
    /\ last = NoOp
    /\ event = WithCover(FirstEvent, 1)
    /\ rsvps = [u \in People |-> "none"]
    /\ questions = FALSE
    /\ answers = <<>>
    /\ rows = <<>>
    /\ textBlasts = 0
    /\ invitations = EmptyBag
    /\ eventQuestions = <<>>
    /\ rsvpAnswers = {}
    /\ otherEvents = EmptyBag
    /\ organizers = {}
    /\ files = {}
    /\ imageJobs = <<>>
    /\ sms = <<>>
    /\ jobs = [j \in Jobs |-> IdleJob]
    /\ beat = FALSE
    /\ reqs = [r \in ReminderReqs |-> NoReq]
    /\ sent = [u \in People |-> [th \in Thresholds |-> 0]]
    /\ hist = NoHist

NextQuestions ==
    \/ \E form \in QuestionForms : EditEventForm(form)
    \/ RsvpEventAnswerAll("alice")

SpecQuestions == InitQuestions /\ [][NextQuestions]_vars

\* the question with this text is one of the event's questions
IsAsked(text) == \E i \in 1..Len(eventQuestions) : eventQuestions[i].text = text

\* C39 as stated: the event has at most 5 questions, numbered 0..n-1 in their
\* order, and every answer whose question is still one of the event's
\* questions is attached to a question with the text the respondent answered.
C39_AnswersKeepTheirQuestion ==
    /\ Len(eventQuestions) <= 5
    /\ \A i \in 1..Len(eventQuestions) : eventQuestions[i].order = i - 1
    /\ \A a \in rsvpAnswers :
          IsAsked(a.answer) =>
             \E i \in 1..Len(eventQuestions) :
                 eventQuestions[i].id = a.question /\ eventQuestions[i].text = a.answer

====
